---------------------------- MODULE Spec2Model ----------------------------
(***************************************************************************)
(* Model of neuroglancer's navigation state                                *)
(* (src/src/neuroglancer/navigation_state.ts): Position and the generic    *)
(* linking protocol makeLinked, instantiated as LinkedPosition.            *)
(*                                                                         *)
(* Number representation.  Position coordinates are Float32 voxel values.  *)
(* The model stores every coordinate and every offset as an integer count  *)
(* of HALF voxels (2.5 voxels is stored as 5), which is exact for the      *)
(* values that occur here: integers, bounding-box centers (lower+upper)/2  *)
(* and a rescaling by a ratio of the scales 1 and 2.  A step whose result  *)
(* is not a half voxel, is outside -MaxCoord..MaxCoord voxels, or is NaN,  *)
(* is outside the modelled inputs (field "outside" of the cascade).        *)
(*                                                                         *)
(* Change signals are dispatched synchronously, so a mutation together     *)
(* with every handler it triggers is one atomic action.  The handlers are  *)
(* mutually recursive operators over a "cascade" record holding the state  *)
(* of the linked pair.                                                     *)
(***************************************************************************)
EXTENDS Integers, Sequences, FiniteSets, TLC

VARIABLES
    coordinateSpace,   \* coordinateSpace.value shared by self and peer: a space name
    self,              \* the Position makeLinked returns: [cur, coords]
    peer,              \* the peer Position: [cur, coords]
    link,              \* link.value
    selfMinusPeer,     \* makeLinked's selfMinusPeer: [kind, v]
    previousLinkValue, \* makeLinked's previousLinkValue
    updatingSelf,      \* makeLinked's guard
    updatingPeer,      \* makeLinked's guard
    lastOp,            \* history: the last external operation, [op, who, from]
    stats,             \* history: what the cascade of lastOp did
    orient,            \* an OrientationState pair built by makeRelative
    orientOp,          \* history: the last operation on the pair and what it did
    scaleFactors,      \* a LinkedRenderScaleFactors pair and makeLinked's closure
    scaleOp,           \* history: the last operation on the pair and what it did
    display,           \* a cross-section zoom, its render dimensions and their rsf
    displayOp,         \* history: the last operation on them and what it did
    zoomPair,          \* a LinkedZoomState: both zooms and makeLinked's closure
    zoomPairOp,        \* history: the last operation on the pair and what it did
    pose,              \* a Pose: its position, orientation and render dimensions
    poseOp             \* history: the last operation on the Pose and what it did

\* The variables of the LinkedPosition pair.
positionVars == <<coordinateSpace, self, peer, link, selfMinusPeer, previousLinkValue,
                  updatingSelf, updatingPeer, lastOp, stats>>

\* The variables of the OrientationState pair.
orientationVars == <<orient, orientOp>>

\* The variables of the LinkedRenderScaleFactors pair.
renderScaleVars == <<scaleFactors, scaleOp>>

\* The variables of the zoom, the render dimensions and their rsf.
displayVars == <<display, displayOp>>

\* The variables of the LinkedZoomState.
zoomPairVars == <<zoomPair, zoomPairOp>>

\* The variables of the Pose.
poseVars == <<pose, poseOp>>

vars == <<positionVars, orientationVars, renderScaleVars, displayVars, zoomPairVars,
          poseVars>>

-----------------------------------------------------------------------------
(* Bounds of the model *)

\* Largest coordinate magnitude, in voxels.
MaxCoord == 1

\* Largest number of dispatches in the cascade of one external operation.
MaxCascade == 12

\* Largest sum of the magnitudes of the components of the integer vector
\* that stands for a quaternion a caller passes in.
MaxQuat == 3

-----------------------------------------------------------------------------
(* NavigationLinkType *)

LINKED == 0
RELATIVE == 1
UNLINKED == 2

NavigationLinkType == {LINKED, RELATIVE, UNLINKED}

-----------------------------------------------------------------------------
(* Coordinate spaces.  A CoordinateSpace object is immutable and compared  *)
(* by identity; the model names each object.  Bounds are in voxels.        *)

Undefined == "undefined"

Spaces ==
    [ empty |-> [valid |-> FALSE, rank |-> 0, dimensionIds |-> <<>>,
                 scales |-> <<>>, lowerBounds |-> <<>>, upperBounds |-> <<>>],
      A     |-> [valid |-> TRUE, rank |-> 2, dimensionIds |-> <<1, 2>>,
                 scales |-> <<1, 1>>, lowerBounds |-> <<0, 0>>,
                 upperBounds |-> <<1, 2>>],
      B     |-> [valid |-> TRUE, rank |-> 1, dimensionIds |-> <<2>>,
                 scales |-> <<2>>, lowerBounds |-> <<0>>,
                 upperBounds |-> <<1>>],
      C     |-> [valid |-> TRUE, rank |-> 2, dimensionIds |-> <<2, 1>>,
                 scales |-> <<2, 1>>, lowerBounds |-> <<0, 0>>,
                 upperBounds |-> <<2, 1>>] ]

\* The spaces of the linked pair's specifications; C, a second space of
\* rank 2, occurs in SpecSpaces only.
SpaceNames == {"empty", "A", "B"}

AllSpaceNames == DOMAIN Spaces

\* Voxel values a caller passes to set value, restoreState and assign.
InputVals == {0, 1}

InputVecs == {<<>>} \cup {<<a>> : a \in InputVals}
                    \cup {<<a, b>> : a \in InputVals, b \in InputVals}

\* A caller's integer voxel vector in the stored representation.
Stored(vec) == [i \in 1..Len(vec) |-> 2 * vec[i]]

kEmptyFloat32Vec == <<>>

-----------------------------------------------------------------------------
(* Helpers of coordinate_transform and util/vector                         *)

\* getCenterBound for finite bounds: (lower + upper) / 2, in half voxels.
getCenterBound(lower, upper) == lower + upper

getBoundingBoxCenter(sp) ==
    [i \in 1..sp.rank |-> getCenterBound(sp.lowerBounds[i], sp.upperBounds[i])]

\* Array.prototype.indexOf, 1-based; 0 when absent.
IndexOf(seq, x) ==
    IF \E i \in 1..Len(seq) : seq[i] = x
    THEN CHOOSE i \in 1..Len(seq) : seq[i] = x /\ \A j \in 1..(i-1) : seq[j] # x
    ELSE 0

InRange(coords) == \A i \in 1..Len(coords) : coords[i] \in (-2 * MaxCoord)..(2 * MaxCoord)

\* Math.round of a coordinate (half voxels in, half voxels out).
Round(c) == 2 * ((c + 1) \div 2)

-----------------------------------------------------------------------------
(* The cascade record: the state of the linked pair while one external     *)
(* operation and the handlers it triggers run.  Fields cs .. updatingPeer  *)
(* are the program's state; the rest are observations of the run.          *)

NoStats ==
    [ selfDispatches |-> 0, peerDispatches |-> 0,
      propagations |-> {},   \* directions in which a handler propagated
      feedback |-> {},       \* propagations started inside the opposite one
      guardsLow |-> {},      \* guards found lowered by a dispatch of a propagation
      mutated |-> FALSE,     \* the external operation changed a Position
      newValue |-> <<>>,     \* that Position's value as the operation left it
      undefinedOffsetUsed |-> FALSE,  \* add/subtract called with no offset
      overflow |-> FALSE,    \* the cascade exceeded MaxCascade dispatches
      rangeError |-> FALSE,  \* TypedArray.set with a source longer than the target
      parseError |-> FALSE ] \* parseArray or verifyFiniteFloat raised an error

Cascade(cs, s, p, l, d, prev, uS, uP) ==
    [ cs |-> cs, self |-> s, peer |-> p, link |-> l, d |-> d, prev |-> prev,
      updatingSelf |-> uS, updatingPeer |-> uP,
      inSelfToPeer |-> 0, inPeerToSelf |-> 0, outside |-> FALSE,
      stats |-> NoStats ]

Other(who) == IF who = "self" THEN "peer" ELSE "self"

NoOffset == [kind |-> "undefined", v |-> <<>>]

RECURSIVE Dispatch(_, _)
RECURSIVE handleCoordinateSpaceChanged(_, _)
RECURSIVE assign(_, _, _)
RECURSIVE handlePeerUpdate(_)
RECURSIVE handleSelfUpdate(_)

-----------------------------------------------------------------------------
(* Position *)

\* Position constructor: no coordinates, no synchronized space.
NewPosition == [cur |-> Undefined, coords |-> kEmptyFloat32Vec]

\* get valid
valid(S) == Spaces[S.cs].valid

\* The cascade with both handlers of makeLinked switched off.
Quiet(S) == [S EXCEPT !.updatingSelf = TRUE, !.updatingPeer = TRUE]

\* Observation: the external operation is about to dispatch who.changed;
\* records the value a reader of who would get at this point.
Mark(S, who) ==
    [S EXCEPT !.stats.mutated = TRUE,
              !.stats.newValue = handleCoordinateSpaceChanged(Quiet(S), who)[who].coords]

\* The loop "match dimensions by ID" of handleCoordinateSpaceChanged.
RemapDefined(prevCoords, prevSp, sp) ==
    \A newDim \in 1..sp.rank :
        LET oldDim == IndexOf(prevSp.dimensionIds, sp.dimensionIds[newDim])
        IN  oldDim # 0 =>
              /\ oldDim <= Len(prevCoords)
              /\ (prevCoords[oldDim] * prevSp.scales[oldDim]) % sp.scales[newDim] = 0

\* Mutant: rescales by newScale / oldScale.
Remap_InvertedScale(prevCoords, prevSp, sp) ==
    [newDim \in 1..sp.rank |->
        LET oldDim == IndexOf(prevSp.dimensionIds, sp.dimensionIds[newDim])
        IN  IF oldDim = 0
            THEN getCenterBound(sp.lowerBounds[newDim], sp.upperBounds[newDim])
            ELSE IF oldDim <= Len(prevCoords)
            THEN (prevCoords[oldDim] * sp.scales[newDim]) \div prevSp.scales[oldDim]
            ELSE 0]

Remap(prevCoords, prevSp, sp) ==
    [newDim \in 1..sp.rank |->
        LET oldDim == IndexOf(prevSp.dimensionIds, sp.dimensionIds[newDim])
        IN  IF oldDim = 0
            THEN getCenterBound(sp.lowerBounds[newDim], sp.upperBounds[newDim])
            ELSE IF oldDim <= Len(prevCoords)
            THEN (prevCoords[oldDim] * prevSp.scales[oldDim]) \div sp.scales[newDim]
            ELSE 0]

\* Mutant: keeps the existing coordinates whatever their length.
handleCoordinateSpaceChanged_KeepsLength(S, who) ==
    LET prevCoordinateSpace == S[who].cur
        sp == Spaces[S.cs]
        S1 == [S EXCEPT ![who].cur = S.cs]
    IN  IF S.cs = prevCoordinateSpace THEN S
        ELSE IF ~sp.valid THEN S1
        ELSE IF prevCoordinateSpace = Undefined
                \/ ~Spaces[prevCoordinateSpace].valid
        THEN Dispatch(S1, who)
        ELSE LET prevSp == Spaces[prevCoordinateSpace]
                 ok == RemapDefined(S[who].coords, prevSp, sp)
             IN  Dispatch([S1 EXCEPT ![who].coords = Remap(S[who].coords, prevSp, sp),
                                     !.outside = @ \/ ~ok], who)

\* Mutant: an invalid coordinate space clears the coordinates.
handleCoordinateSpaceChanged_ClearsInvalid(S, who) ==
    LET prevCoordinateSpace == S[who].cur
        sp == Spaces[S.cs]
        S1 == [S EXCEPT ![who].cur = S.cs]
    IN  IF S.cs = prevCoordinateSpace THEN S
        ELSE IF ~sp.valid THEN [S1 EXCEPT ![who].coords = kEmptyFloat32Vec]
        ELSE IF prevCoordinateSpace = Undefined
                \/ ~Spaces[prevCoordinateSpace].valid
        THEN IF Len(S[who].coords) = sp.rank
             THEN Dispatch(S1, who)
             ELSE Dispatch([S1 EXCEPT ![who].coords = getBoundingBoxCenter(sp)], who)
        ELSE LET prevSp == Spaces[prevCoordinateSpace]
                 ok == RemapDefined(S[who].coords, prevSp, sp)
             IN  Dispatch([S1 EXCEPT ![who].coords = Remap(S[who].coords, prevSp, sp),
                                     !.outside = @ \/ ~ok], who)

\* Mutant: after an undefined or invalid space the coordinates are always
\* replaced by the center of the bounding box.
handleCoordinateSpaceChanged_CenterAfterInvalid(S, who) ==
    LET prevCoordinateSpace == S[who].cur
        sp == Spaces[S.cs]
        S1 == [S EXCEPT ![who].cur = S.cs]
    IN  IF S.cs = prevCoordinateSpace THEN S
        ELSE IF ~sp.valid THEN S1
        ELSE IF prevCoordinateSpace = Undefined
                \/ ~Spaces[prevCoordinateSpace].valid
        THEN Dispatch([S1 EXCEPT ![who].coords = getBoundingBoxCenter(sp)], who)
        ELSE LET prevSp == Spaces[prevCoordinateSpace]
                 ok == RemapDefined(S[who].coords, prevSp, sp)
             IN  Dispatch([S1 EXCEPT ![who].coords = Remap(S[who].coords, prevSp, sp),
                                     !.outside = @ \/ ~ok], who)

\* private handleCoordinateSpaceChanged()
handleCoordinateSpaceChanged(S, who) ==
    LET prevCoordinateSpace == S[who].cur
        sp == Spaces[S.cs]
        S1 == [S EXCEPT ![who].cur = S.cs]
    IN  IF S.cs = prevCoordinateSpace THEN S
        ELSE IF ~sp.valid THEN S1
        ELSE IF prevCoordinateSpace = Undefined
                \/ ~Spaces[prevCoordinateSpace].valid
        THEN IF Len(S[who].coords) = sp.rank
             THEN Dispatch(S1, who)
             ELSE Dispatch([S1 EXCEPT ![who].coords = getBoundingBoxCenter(sp)], who)
        ELSE LET prevSp == Spaces[prevCoordinateSpace]
                 ok == RemapDefined(S[who].coords, prevSp, sp)
             IN  Dispatch([S1 EXCEPT ![who].coords = Remap(S[who].coords, prevSp, sp),
                                     !.outside = @ \/ ~ok], who)

\* get value
GetValue(S, who) == handleCoordinateSpaceChanged(S, who)

\* reset()
reset(S, who) == Dispatch(Mark([S EXCEPT ![who] = NewPosition], who), who)

\* Mutant: set value without the check of the vector's length.
SetValue_NoRankCheck(S, who, coordinates) ==
    LET curCoordinateSpace == S[who].cur
        coordinates_ == S[who].coords
    IN  IF \/ curCoordinateSpace = Undefined
           \/ ~Spaces[curCoordinateSpace].valid
        THEN S
        ELSE IF Len(coordinates) > Len(coordinates_)
        THEN [S EXCEPT !.stats.rangeError = TRUE]
        ELSE Dispatch(Mark([S EXCEPT ![who].coords =
                          [i \in 1..Len(coordinates_) |->
                              IF i <= Len(coordinates) THEN coordinates[i]
                              ELSE coordinates_[i]]], who), who)

\* Mutant: set value synchronizes with the coordinate space first.
SetValue_Synchronizes(S, who, coordinates) ==
    LET T == handleCoordinateSpaceChanged(S, who)
        curCoordinateSpace == T[who].cur
        coordinates_ == T[who].coords
    IN  IF \/ curCoordinateSpace = Undefined
           \/ ~Spaces[curCoordinateSpace].valid
           \/ Spaces[curCoordinateSpace].rank # Len(coordinates)
        THEN T
        ELSE Dispatch(Mark([T EXCEPT ![who].coords = coordinates], who), who)

\* set value(coordinates)
SetValue(S, who, coordinates) ==
    LET curCoordinateSpace == S[who].cur
        coordinates_ == S[who].coords
    IN  IF \/ curCoordinateSpace = Undefined
           \/ ~Spaces[curCoordinateSpace].valid
           \/ Spaces[curCoordinateSpace].rank # Len(coordinates)
        THEN S
        ELSE IF Len(coordinates) > Len(coordinates_)
        THEN [S EXCEPT !.stats.rangeError = TRUE]
        ELSE Dispatch(Mark([S EXCEPT ![who].coords =
                          [i \in 1..Len(coordinates_) |->
                              IF i <= Len(coordinates) THEN coordinates[i]
                              ELSE coordinates_[i]]], who), who)

\* markSpatialCoordinatesChanged(): the notification that goes with writes
\* made in place through the value getter
markSpatialCoordinatesChanged(S, who) == Dispatch(S, who)

\* restoreState(obj), obj undefined, an array of finite numbers, or a value
\* parseArray(obj, verifyFiniteFloat) raises an error on ("malformed": not an
\* array, or an element that is not a finite number), which happens after
\* curCoordinateSpace was cleared
restoreState(S, who, obj) ==
    IF obj.t = "undefined" THEN reset(S, who)
    ELSE IF obj.t = "malformed"
    THEN [S EXCEPT ![who].cur = Undefined, !.stats.parseError = TRUE]
    ELSE LET S1 == [S EXCEPT ![who] = [cur |-> Undefined, coords |-> obj.a]]
         IN  Dispatch(Mark(handleCoordinateSpaceChanged(S1, who), who), who)

\* JSON undefined
UndefinedJson == [t |-> "undefined", a |-> <<>>]

\* toJSON() from "const {value} = this" on
toJSONValue(S, who) ==
    [S |-> S,
     json |-> IF Len(S[who].coords) = 0 THEN UndefinedJson
              ELSE [t |-> "array", a |-> S[who].coords]]

\* Mutant: toJSON serializes the stored coordinates without synchronizing
\* with the coordinate space.
toJSON_NoSync(S, who) ==
    IF ~valid(S) THEN [S |-> S, json |-> UndefinedJson]
    ELSE toJSONValue(S, who)

\* toJSON(): the cascade it leaves and the JSON value it returns
toJSON(S, who) ==
    IF ~valid(S) THEN [S |-> S, json |-> UndefinedJson]
    ELSE toJSONValue(GetValue(handleCoordinateSpaceChanged(S, who), who), who)

\* snapToVoxel()
snapToVoxel(S, who) ==
    Dispatch(Mark([handleCoordinateSpaceChanged(S, who) EXCEPT
                      ![who].coords = [i \in 1..Len(@) |-> Round(@[i])]], who), who)

\* this.curCoordinateSpace = curCoordinateSpace;
\* this.coordinates_ = Float32Array.from(coordinates_)
CopyFields(S, target, source) == [S EXCEPT ![target] = S[source]]

\* assign(other), other being the other Position of the pair
assign(S, target, source) ==
    Dispatch(CopyFields(handleCoordinateSpaceChanged(S, source), target, source), target)

\* assign(other), other being a Position outside the pair, already
\* synchronized with the shared coordinate space
AssignFrom(S, target, other) ==
    Dispatch(Mark([S EXCEPT ![target] = other], target), target)

\* Mutant: vectors of different lengths give a voxel offset of zeros.
getOffset_NeverEmpty(a, b) ==
    [kind |-> "voxelOffset",
     v |-> [i \in 1..Len(a.coords) |->
               IF Len(a.coords) = Len(b.coords) THEN a.coords[i] - b.coords[i] ELSE 0]]

\* static getOffset(a, b)
getOffset(a, b) ==
    IF Len(a.coords) = Len(b.coords)
    THEN [kind |-> "voxelOffset",
          v |-> [i \in 1..Len(a.coords) |-> a.coords[i] - b.coords[i]]]
    ELSE [kind |-> "empty", v |-> <<>>]

\* vector.scaleAndAdd(out, a, b, scale) with out the coordinates of target:
\* out[i] = a[i] + b[i] * scale for every index of out.
scaleAndAdd(S, target, a, b, scale) ==
    [S EXCEPT ![target].coords =
                  [i \in 1..Len(@) |-> IF i <= Len(a) THEN a[i] + b[i] * scale ELSE 0],
              !.outside = @ \/ Len(S[target].coords) > Len(a)]

\* addOffset from "if (voxelOffset !== undefined)" on; S is the cascade
\* after source.value was read into sourceCoordinates.
addVoxelOffset(S, target, source, offset, scale) ==
    IF offset.kind = "voxelOffset" /\ Len(S[source].coords) = Len(offset.v)
    THEN Dispatch(scaleAndAdd(GetValue(S, target), target,
                              S[source].coords, offset.v, scale), target)
    ELSE S

\* The value setter as addOffset calls it: "target.value = ..." inside an
\* operation.
AssignValue(S, who, coordinates) ==
    IF \/ S[who].cur = Undefined
       \/ ~Spaces[S[who].cur].valid
       \/ Spaces[S[who].cur].rank # Len(coordinates)
    THEN S
    ELSE IF Len(coordinates) > Len(S[who].coords)
    THEN [S EXCEPT !.stats.rangeError = TRUE]
    ELSE Dispatch([S EXCEPT ![who].coords =
                      [i \in 1..Len(@) |->
                          IF i <= Len(coordinates) THEN coordinates[i] ELSE @[i]]], who)

\* addOffset's branch "else if (spatialOffset !== undefined)"; offset.v is
\* the spatialOffset with its implicit multiplier of 1e-9, in half voxels.
\* The quotient vector.divide stores in temp is overwritten by scaleAndAdd.
addSpatialOffset(S, target, source, offset, scale) ==
    IF S[source].cur # Undefined /\ Spaces[S[source].cur].rank = Len(offset.v)
    THEN IF Len(S[source].coords) < Len(offset.v)
         THEN [S EXCEPT !.outside = TRUE]
         ELSE AssignValue(S, target,
                          [i \in 1..Len(offset.v) |->
                              S[source].coords[i] + offset.v[i] * scale])
    ELSE S

\* addOffset after target.handleCoordinateSpaceChanged() and the read of
\* source.value
AddOffsetRead(S, target, source, offset, scale) ==
    IF offset.kind = "spatialOffset"
    THEN addSpatialOffset(S, target, source, offset, scale)
    ELSE addVoxelOffset(S, target, source, offset, scale)

\* static addOffset(target, source, offset, scale)
addOffset(S, target, source, offset, scale) ==
    IF offset.kind = "undefined"
    THEN [S EXCEPT !.stats.undefinedOffsetUsed = TRUE]
    ELSE AddOffsetRead(GetValue(handleCoordinateSpaceChanged(S, target), source),
                       target, source, offset, scale)

-----------------------------------------------------------------------------
(* makeLinked, with the operations LinkedPosition passes to it *)

\* operations.isValid: (a) => a.valid
isValid(S, who) == valid(S)

\* operations.add: Position.addOffset
add(S, target, source, amount) == addOffset(S, target, source, amount, 1)

\* Mutant: subtract adds the offset.
subtract_Adds(S, target, source, amount) == addOffset(S, target, source, amount, 1)

\* operations.subtract: Position.addOffset(target, source, amount, -1)
subtract(S, target, source, amount) == addOffset(S, target, source, amount, -1)

\* Mutant: UNLINKED copies peer into self whether or not self is valid.
PeerUpdateSwitch_AlwaysCopies(S) ==
    IF S.link = RELATIVE THEN add(S, "self", "peer", S.d)
    ELSE assign(S, "self", "peer")

\* The body of handlePeerUpdate's switch.
PeerUpdateSwitch(S) ==
    IF S.link = UNLINKED /\ isValid(S, "self") THEN S
    ELSE IF S.link = RELATIVE THEN add(S, "self", "peer", S.d)
    ELSE assign(S, "self", "peer")

\* const handlePeerUpdate = () => {...}
\* Mutant: handlePeerUpdate does not raise updatingSelf.
handlePeerUpdate_GuardNotRaised(S) ==
    IF S.updatingPeer THEN S
    ELSE [PeerUpdateSwitch([S EXCEPT !.inPeerToSelf = @ + 1])
             EXCEPT !.updatingSelf = FALSE, !.inPeerToSelf = @ - 1]

handlePeerUpdate(S) ==
    IF S.updatingPeer THEN S
    ELSE
    LET propagates == ~(S.link = UNLINKED /\ isValid(S, "self"))
        S1 == [S EXCEPT
                 !.updatingSelf = TRUE,
                 !.inPeerToSelf = @ + 1,
                 !.stats.propagations =
                     IF propagates THEN @ \cup {"peerToSelf"} ELSE @,
                 !.stats.feedback =
                     IF propagates /\ S.inSelfToPeer > 0
                     THEN @ \cup {"peerToSelfInsideSelfToPeer"} ELSE @]
        S2 == PeerUpdateSwitch(S1)
    IN  [S2 EXCEPT !.updatingSelf = FALSE, !.inPeerToSelf = @ - 1]

\* Mutant: LINKED copies in the wrong direction (self := peer).
SelfUpdateSwitch_Reversed(S) ==
    IF S.link = UNLINKED THEN S
    ELSE IF S.link = LINKED THEN assign(S, "self", "peer")
    ELSE subtract(S, "peer", "self", S.d)

\* The body of handleSelfUpdate's switch.
SelfUpdateSwitch(S) ==
    IF S.link = UNLINKED THEN S
    ELSE IF S.link = LINKED THEN assign(S, "peer", "self")
    ELSE subtract(S, "peer", "self", S.d)

\* Mutant: handleSelfUpdate without its updatingSelf guard.
handleSelfUpdate_Unguarded(S) ==
    LET S2 == SelfUpdateSwitch([S EXCEPT !.inSelfToPeer = @ + 1])
    IN  [S2 EXCEPT !.inSelfToPeer = @ - 1]

\* const handleSelfUpdate = () => {...}
handleSelfUpdate(S) ==
    IF S.updatingSelf THEN S
    ELSE
    LET propagates == S.link # UNLINKED
        S1 == [S EXCEPT
                 !.inSelfToPeer = @ + 1,
                 !.stats.propagations =
                     IF propagates THEN @ \cup {"selfToPeer"} ELSE @,
                 !.stats.feedback =
                     IF propagates /\ S.inPeerToSelf > 0
                     THEN @ \cup {"selfToPeerInsidePeerToSelf"} ELSE @]
        S2 == SelfUpdateSwitch(S1)
    IN  [S2 EXCEPT !.inSelfToPeer = @ - 1]

\* NullarySignal.dispatch of who.changed: self.changed calls handleSelfUpdate,
\* peer.changed calls handlePeerUpdate.
Dispatch(S, who) ==
    IF S.stats.selfDispatches + S.stats.peerDispatches >= MaxCascade
    THEN [S EXCEPT !.stats.overflow = TRUE]
    ELSE IF who = "self"
    THEN handleSelfUpdate(
            [S EXCEPT !.stats.selfDispatches = @ + 1,
                      !.stats.guardsLow =
                          IF S.inPeerToSelf > 0 /\ ~S.updatingSelf
                          THEN @ \cup {"updatingSelf"} ELSE @])
    ELSE handlePeerUpdate(
            [S EXCEPT !.stats.peerDispatches = @ + 1,
                      !.stats.guardsLow =
                          IF S.inSelfToPeer > 0 /\ ~S.updatingPeer
                          THEN @ \cup {"updatingPeer"} ELSE @])

\* Mutant: dispatches self.changed only when the mode changed.
handleLinkUpdate_NoRedispatch(S) ==
    LET linkValue == S.link
        S1 == IF linkValue = UNLINKED THEN [S EXCEPT !.d = NoOffset]
              ELSE IF linkValue = LINKED
              THEN assign([S EXCEPT !.d = NoOffset], "self", "peer")
              ELSE [S EXCEPT !.d = getOffset(S.self, S.peer)]
    IN  IF linkValue = S.prev THEN S
        ELSE Dispatch([S1 EXCEPT !.prev = linkValue], "self")

\* Mutant: recomputes the offset on every notification.
handleLinkUpdate_AlwaysRecomputes(S) ==
    LET linkValue == S.link
        S1 == IF linkValue = UNLINKED THEN [S EXCEPT !.d = NoOffset]
              ELSE IF linkValue = LINKED
              THEN assign([S EXCEPT !.d = NoOffset], "self", "peer")
              ELSE [S EXCEPT !.d = getOffset(S.self, S.peer)]
    IN  Dispatch([S1 EXCEPT !.prev = linkValue], "self")

\* Mutant: entering LINKED drops the offset but does not copy peer into self.
handleLinkUpdate_NoResync(S) ==
    LET linkValue == S.link
        S1 == IF linkValue = S.prev THEN S
              ELSE IF linkValue = UNLINKED THEN [S EXCEPT !.d = NoOffset]
              ELSE IF linkValue = LINKED THEN [S EXCEPT !.d = NoOffset]
              ELSE [S EXCEPT !.d = getOffset(S.self, S.peer)]
    IN  Dispatch([S1 EXCEPT !.prev = linkValue], "self")

\* Mutant: entering RELATIVE does not capture the offset.
handleLinkUpdate_NoCapture(S) ==
    LET linkValue == S.link
        S1 == IF linkValue = S.prev THEN S
              ELSE IF linkValue = UNLINKED THEN [S EXCEPT !.d = NoOffset]
              ELSE IF linkValue = LINKED
              THEN assign([S EXCEPT !.d = NoOffset], "self", "peer")
              ELSE S
    IN  Dispatch([S1 EXCEPT !.prev = linkValue], "self")

\* const handleLinkUpdate = () => {...}, link.value being linkValue
handleLinkUpdate(S) ==
    LET linkValue == S.link
        S1 == IF linkValue = S.prev THEN S
              ELSE IF linkValue = UNLINKED THEN [S EXCEPT !.d = NoOffset]
              ELSE IF linkValue = LINKED
              THEN assign([S EXCEPT !.d = NoOffset], "self", "peer")
              ELSE [S EXCEPT !.d = getOffset(S.self, S.peer)]
    IN  Dispatch([S1 EXCEPT !.prev = linkValue], "self")

\* makeLinked(self, peer, link, operations): the state it returns in.
makeLinked(cs, s, p, l) ==
    handleLinkUpdate(Cascade(cs, s, p, l, NoOffset, UNLINKED, FALSE, FALSE))

-----------------------------------------------------------------------------
(* OrientationState.  An orientation is a unit quaternion (x, y, z, w); the *)
(* model stores it as the integer vector of the same direction with no     *)
(* common divisor, so <<1, 0, 0, 1>> stands for (sqrt(1/2), 0, 0,          *)
(* sqrt(1/2)).  Products, inverses and the rotation matrix of such a       *)
(* quaternion are computed exactly up to a positive factor, which no       *)
(* comparison made by the code depends on.  <<0, 0, 0, 0>> is the zero      *)
(* quaternion, which quat.normalize leaves as it is.                       *)

Abs(n) == IF n < 0 THEN -n ELSE n

\* Math.sign
Sign(n) == IF n > 0 THEN 1 ELSE IF n < 0 THEN -1 ELSE 0

RECURSIVE Gcd(_, _)
Gcd(a, b) == IF b = 0 THEN a ELSE Gcd(b, a % b)

\* quat.normalize: the same direction at length 1 (the zero quaternion stays)
quatNormalize(q) ==
    LET g == Gcd(Gcd(Abs(q[1]), Abs(q[2])), Gcd(Abs(q[3]), Abs(q[4])))
    IN  IF g = 0 THEN q ELSE [i \in 1..4 |-> q[i] \div g]

\* quat.create / quat.identity
quatIdentity == <<0, 0, 0, 1>>

\* quat.multiply(out, a, b)
quatMultiply(a, b) ==
    quatNormalize(<<a[1] * b[4] + a[4] * b[1] + a[2] * b[3] - a[3] * b[2],
                    a[2] * b[4] + a[4] * b[2] + a[3] * b[1] - a[1] * b[3],
                    a[3] * b[4] + a[4] * b[3] + a[1] * b[2] - a[2] * b[1],
                    a[4] * b[4] - a[1] * b[1] - a[2] * b[2] - a[3] * b[3]>>)

\* quat.invert(out, a): the conjugate divided by the squared length
quatInvert(a) == quatNormalize(<<-a[1], -a[2], -a[3], a[4]>>)

\* The quaternions a caller passes in: every direction whose integer vector
\* has components of magnitudes summing to at most MaxQuat.
QuatInputs ==
    {q \in [1..4 -> (-MaxQuat)..MaxQuat] :
        /\ q # <<0, 0, 0, 0>>
        /\ Abs(q[1]) + Abs(q[2]) + Abs(q[3]) + Abs(q[4]) <= MaxQuat
        /\ quatNormalize(q) = q}

\* mat3.fromQuat(out, q), times the squared length of the stored vector;
\* mat[i * 3 + j] of the code is element i * 3 + j + 1.
fromQuat(q) ==
    LET x == q[1]
        y == q[2]
        z == q[3]
        w == q[4]
        n == x * x + y * y + z * z + w * w
    IN  IF n = 0 THEN <<1, 0, 0, 0, 1, 0, 0, 0, 1>>
        ELSE << n - 2 * (y * y + z * z), 2 * (x * y + w * z), 2 * (x * z - w * y),
                2 * (x * y - w * z), n - 2 * (x * x + z * z), 2 * (y * z + w * x),
                2 * (x * z + w * y), 2 * (y * z - w * x), n - 2 * (x * x + y * y) >>

\* One pass of snap's inner loop body for column j (0-based).
SnapPick(acc, value, j, usedAxes) ==
    IF usedAxes[j + 1] THEN acc
    ELSE IF Abs(value) > Abs(acc.maxComponent)
    THEN [maxComponent |-> value, argmaxComponent |-> j]
    ELSE acc

\* snap's inner loop for row i (0-based): the component chosen.
SnapChoice(mat, i, usedAxes) ==
    SnapPick(SnapPick(SnapPick([maxComponent |-> 0, argmaxComponent |-> 0],
                               mat[i * 3 + 1], 0, usedAxes),
                      mat[i * 3 + 2], 1, usedAxes),
             mat[i * 3 + 3], 2, usedAxes)

\* The row written with the choice c.
SnapWrite(st, i, c) ==
    [mat |-> [k \in 1..9 |->
                 IF k = i * 3 + c.argmaxComponent + 1 THEN Sign(c.maxComponent)
                 ELSE IF k \in (i * 3 + 1)..(i * 3 + 3) THEN 0
                 ELSE st.mat[k]],
     usedAxes |-> [st.usedAxes EXCEPT ![c.argmaxComponent + 1] = TRUE]]

\* Mutant: a column may be chosen by several rows.
SnapRow_ReusesAxes(st, i) ==
    SnapWrite(st, i, SnapChoice(st.mat, i, <<FALSE, FALSE, FALSE>>))

\* One pass of snap's outer loop.
SnapRow(st, i) == SnapWrite(st, i, SnapChoice(st.mat, i, st.usedAxes))

\* The matrix snap hands to quat.fromMat3.
SnapMat(q) ==
    SnapRow(SnapRow(SnapRow([mat |-> fromQuat(q),
                             usedAxes |-> <<FALSE, FALSE, FALSE>>], 0), 1), 2).mat

\* quat.fromMat3(out, m) for an integer matrix: q is the result times a
\* positive factor (2 * fRoot), unit says whether the result has length 1.
fromMat3(m) ==
    LET fTrace == m[1] + m[5] + m[9]
    IN  IF fTrace > 0
        THEN LET d == <<m[6] - m[8], m[7] - m[3], m[2] - m[4]>>
                 f == fTrace + 1
             IN  [q |-> quatNormalize(<<d[1], d[2], d[3], f>>),
                  unit |-> f * f + d[1] * d[1] + d[2] * d[2] + d[3] * d[3] = 4 * f]
        ELSE LET i0 == IF m[5] > m[1] THEN 1 ELSE 0
                 i == IF m[9] > m[i0 * 3 + i0 + 1] THEN 2 ELSE i0
                 j == (i + 1) % 3
                 k == (i + 2) % 3
                 f == m[i * 3 + i + 1] - m[j * 3 + j + 1] - m[k * 3 + k + 1] + 1
                 ew == m[j * 3 + k + 1] - m[k * 3 + j + 1]
                 ej == m[j * 3 + i + 1] + m[i * 3 + j + 1]
                 ek == m[k * 3 + i + 1] + m[i * 3 + k + 1]
                 out == [c \in 1..4 |->
                            IF c = i + 1 THEN f
                            ELSE IF c = j + 1 THEN ej
                            ELSE IF c = k + 1 THEN ek
                            ELSE ew]
             IN  [q |-> quatNormalize(out),
                  unit |-> f > 0 /\ f * f + ew * ew + ej * ej + ek * ek = 4 * f]

\* What one operation on the pair did: dispatches of each changed signal,
\* writes made by makeRelative's handlers, and whether a quaternion of
\* length other than 1 was stored.
NoOrientStats ==
    [selfDispatches |-> 0, peerDispatches |-> 0,
     selfWrites |-> 0, peerWrites |-> 0, nonUnit |-> FALSE]

RECURSIVE OrientationDispatch(_, _)

\* makeRelative: the handler added to peer.changed
OnPeerChanged(O) ==
    IF O.updatingPeer THEN O
    ELSE LET O1 == [O EXCEPT !.updatingSelf = TRUE,
                             !.self = quatMultiply(O.peer, O.peerToSelf),
                             !.stats.selfWrites = @ + 1]
         IN  [OrientationDispatch(O1, "self") EXCEPT !.updatingSelf = FALSE]

\* Mutant: back-propagates with peerToSelf instead of its inverse.
OnSelfChanged_NotInverted(O) ==
    IF O.updatingSelf THEN O
    ELSE LET O1 == [O EXCEPT !.updatingPeer = TRUE,
                             !.peer = quatMultiply(O.self, O.peerToSelf),
                             !.stats.peerWrites = @ + 1]
         IN  [OrientationDispatch(O1, "peer") EXCEPT !.updatingPeer = FALSE]

\* makeRelative: the handler added to self.changed; selfToPeer is
\* quat.invert(quat.create(), peerToSelf)
OnSelfChanged(O) ==
    IF O.updatingSelf THEN O
    ELSE LET O1 == [O EXCEPT !.updatingPeer = TRUE,
                             !.peer = quatMultiply(O.self, quatInvert(O.peerToSelf)),
                             !.stats.peerWrites = @ + 1]
         IN  [OrientationDispatch(O1, "peer") EXCEPT !.updatingPeer = FALSE]

\* who.changed.dispatch()
OrientationDispatch(O, who) ==
    IF who = "self"
    THEN OnSelfChanged([O EXCEPT !.stats.selfDispatches = @ + 1])
    ELSE OnPeerChanged([O EXCEPT !.stats.peerDispatches = @ + 1])

\* static makeRelative(peer, peerToSelf)
makeRelative(peerOrientation, peerToSelf) ==
    [self |-> quatMultiply(peerOrientation, peerToSelf), peer |-> peerOrientation,
     peerToSelf |-> peerToSelf, updatingSelf |-> FALSE, updatingPeer |-> FALSE,
     stats |-> NoOrientStats]

\* JSON values handed to OrientationState.restoreState: an array of four
\* finite numbers, or anything parseFiniteVec rejects
OrientationJsonInputs ==
    {[t |-> "array", a |-> q] :
        q \in {<<0, 0, 0, 0>>, <<0, 0, 0, 2>>, <<2, 0, 0, 2>>, <<0, -2, 2, 0>>,
               <<2, 2, 2, -2>>, <<0, 1, 2, 2>>}}
        \cup {[t |-> "undefined", a |-> <<>>]}

\* JSON values parseFiniteVec rejects: a value that is no array, an array
\* with an entry that is no finite number, an array of another length.
MalformedOrientationJson ==
    {[t |-> "string", a |-> <<>>], [t |-> "arrayOfStrings", a |-> <<>>],
     [t |-> "array", a |-> <<0, 0, 1>>], [t |-> "array", a |-> <<0, 0, 0, 1, 0>>]}

\* parseFiniteVec(this.orientation, obj) returns normally
parseFiniteVecAccepts(obj) == obj.t = "array" /\ Len(obj.a) = 4

\* Mutant: the catch block leaves the orientation as it is.
Orientation_restoreState_NoFallback(O, who, obj) ==
    OrientationDispatch(
        [O EXCEPT ![who] = IF parseFiniteVecAccepts(obj) THEN quatNormalize(obj.a)
                           ELSE @], who)

\* restoreState(obj)
Orientation_restoreState(O, who, obj) ==
    OrientationDispatch(
        [O EXCEPT ![who] = IF parseFiniteVecAccepts(obj) THEN quatNormalize(obj.a)
                           ELSE quatIdentity], who)

\* reset()
Orientation_reset(O, who) ==
    OrientationDispatch([O EXCEPT ![who] = quatIdentity], who)

\* snap() up to the dispatch
SnapOrientation(O, who, snapped) ==
    [O EXCEPT ![who] = snapped.q, !.stats.nonUnit = @ \/ ~snapped.unit]

\* snap()
Orientation_snap(O, who) ==
    OrientationDispatch(SnapOrientation(O, who, fromMat3(SnapMat(O[who]))), who)

\* assign(other), other an OrientationState outside the pair
Orientation_assign(O, who, other) ==
    OrientationDispatch([O EXCEPT ![who] = other], who)

\* The OrientationState pair of a state in which it is not under study.
OrientationIdle ==
    /\ orient = makeRelative(quatIdentity, quatIdentity)
    /\ orientOp = [op |-> "makeRelative", who |-> "self"]

-----------------------------------------------------------------------------
(* Coordinate spaces of the display state.  Scales are in nanometres (or   *)
(* the unit named); every space is a distinct object.  A bound is a number *)
(* n/d, -1/0 and 1/0 being the infinities of a dimension without bounds.   *)

DisplaySpaces ==
    [ empty |-> [valid |-> FALSE, rank |-> 0, dimensionIds |-> <<>>,
                 dimensionNames |-> <<>>, units |-> <<>>, scales |-> <<>>,
                 lowerBounds |-> <<>>, upperBounds |-> <<>>],
      X     |-> [valid |-> TRUE, rank |-> 1, dimensionIds |-> <<1>>,
                 dimensionNames |-> <<"x">>,
                 units |-> <<"m">>, scales |-> <<4>>,
                 lowerBounds |-> <<[n |-> 0, d |-> 1]>>,
                 upperBounds |-> <<[n |-> 5, d |-> 1]>>],
      YX    |-> [valid |-> TRUE, rank |-> 2, dimensionIds |-> <<2, 1>>,
                 dimensionNames |-> <<"y", "x">>,
                 units |-> <<"m", "m">>, scales |-> <<2, 4>>,
                 lowerBounds |-> <<[n |-> 0, d |-> 1], [n |-> 0, d |-> 1]>>,
                 upperBounds |-> <<[n |-> 3, d |-> 1], [n |-> 5, d |-> 1]>>],
      XYZT  |-> [valid |-> TRUE, rank |-> 4, dimensionIds |-> <<1, 2, 3, 4>>,
                 dimensionNames |-> <<"x", "y", "z", "t">>,
                 units |-> <<"m", "m", "m", "s">>, scales |-> <<4, 4, 8, 1>>,
                 lowerBounds |-> <<[n |-> 0, d |-> 1], [n |-> 0, d |-> 1],
                                   [n |-> 0, d |-> 1], [n |-> -1, d |-> 0]>>,
                 upperBounds |-> <<[n |-> 5, d |-> 1], [n |-> 3, d |-> 1],
                                   [n |-> 2, d |-> 1], [n |-> 1, d |-> 0]>>] ]

emptyCoordinateSpace == "empty"

-----------------------------------------------------------------------------
(* TrackableRenderScaleFactors and LinkedRenderScaleFactors.  A factor is  *)
(* an integer; a RenderScaleFactors value is [cur, factors], cur naming    *)
(* the CoordinateSpace object it refers to.  The record F is the state of  *)
(* a linked pair while one external operation and its handlers run.        *)

\* Largest factor a caller passes in.
MaxFactor == 2

\* Coordinate spaces the linked pair is placed in.
FactorSpaceNames == {"empty", "X", "YX"}

\* What one operation on the pair did: dispatches of each changed signal,
\* whether the cascade exceeded MaxCascade dispatches, whether an exception
\* ended the operation (every statement after the throw is skipped), and
\* whether add or subtract ran with selfMinusPeer undefined.
NoFactorStats ==
    [selfDispatches |-> 0, peerDispatches |-> 0, overflow |-> FALSE, threw |-> FALSE,
     undefinedOffsetUsed |-> FALSE]

NoFactorOffset == [kind |-> "undefined", cs |-> emptyCoordinateSpace, offsets |-> <<>>]

\* private value_ = {coordinateSpace: emptyCoordinateSpace, factors: new Float64Array(0)}
NewRenderScaleFactors == [cur |-> emptyCoordinateSpace, factors |-> <<>>]

FactorCascade(cs, s, p, l, d, prev, uS, uP) ==
    [ cs |-> cs, self |-> s, peer |-> p, link |-> l, d |-> d, prev |-> prev,
      updatingSelf |-> uS, updatingPeer |-> uP, stats |-> NoFactorStats ]

RECURSIVE FactorsDispatch(_, _)

\* The loop of update(): factors carried over by dimension id, 1 otherwise.
RemapFactors(oldFactors, oldSp, sp) ==
    [i \in 1..sp.rank |->
        IF IndexOf(oldSp.dimensionIds, sp.dimensionIds[i]) = 0 THEN 1
        ELSE oldFactors[IndexOf(oldSp.dimensionIds, sp.dimensionIds[i])]]

\* private update(), which get value() and the listener of
\* coordinateSpace.changed call
Factors_update(F, who) ==
    IF F.stats.threw \/ F[who].cur = F.cs THEN F
    ELSE FactorsDispatch(
            [F EXCEPT ![who] =
                [cur |-> F.cs,
                 factors |-> RemapFactors(F[who].factors, DisplaySpaces[F[who].cur],
                                          DisplaySpaces[F.cs])]],
            who)

\* reset()
Factors_reset(F, who) == FactorsDispatch([F EXCEPT ![who] = NewRenderScaleFactors], who)

\* verifyObjectProperty(obj, name, x => x === undefined ? 1 :
\* verifyFinitePositiveFloat(x)): the factor, or 0 where it throws.
RestoredFactor(o, name) ==
    IF name \notin DOMAIN o THEN 1 ELSE IF o[name] > 0 THEN o[name] ELSE 0

\* The array restoreState builds: filled with -1, then each element read
\* from the object when there is one.
RestoredFactors(json, sp) ==
    [i \in 1..sp.rank |->
        IF json.t = "undefined" THEN -1 ELSE RestoredFactor(json.o, sp.dimensionNames[i])]

\* restoreState(json); verifyObject and verifyFinitePositiveFloat throw
\* before value_ is assigned.
Factors_restoreState(F, who, json) ==
    IF \/ json.t = "number"
       \/ \E i \in 1..DisplaySpaces[F.cs].rank :
             RestoredFactors(json, DisplaySpaces[F.cs])[i] = 0
    THEN [F EXCEPT !.stats.threw = TRUE]
    ELSE FactorsDispatch(
            [F EXCEPT ![who] = [cur |-> F.cs,
                                factors |-> RestoredFactors(json, DisplaySpaces[F.cs])]],
            who)

\* setFactors(factors)
Factors_setFactors(F, who, factors) ==
    IF F.stats.threw \/ Len(factors) # DisplaySpaces[F.cs].rank THEN F
    ELSE FactorsDispatch([F EXCEPT ![who] = [cur |-> F.cs, factors |-> factors]], who)

\* setFactors(other.value.factors) once other.value has been read
SetFactorsOf(F, target, source) == Factors_setFactors(F, target, F[source].factors)

\* assign(other), other being the other side of the pair
Factors_assign(F, target, source) == SetFactorsOf(Factors_update(F, source), target, source)

\* mapPerDimensionValues(Float64Array, input, old, new, () => 0)
mapPerDimensionValues(input, oldCs, newCs) ==
    IF oldCs = newCs THEN input
    ELSE [i \in 1..DisplaySpaces[newCs].rank |->
            IF IndexOf(DisplaySpaces[oldCs].dimensionIds,
                       DisplaySpaces[newCs].dimensionIds[i]) = 0 THEN 0
            ELSE input[IndexOf(DisplaySpaces[oldCs].dimensionIds,
                               DisplaySpaces[newCs].dimensionIds[i])]]

\* operations.difference once a.value and b.value have been read:
\* vector.subtract over the length of fa
FactorDifference(F, a, b) ==
    IF F.stats.threw THEN F
    ELSE
    [F EXCEPT !.d = [kind |-> "defined", cs |-> F[a].cur,
                     offsets |-> [i \in 1..Len(F[a].factors) |->
                                     F[a].factors[i] - F[b].factors[i]]]]

\* operations.difference(a, b), stored in selfMinusPeer
Factors_difference(F, a, b) == FactorDifference(Factors_update(Factors_update(F, a), b), a, b)

\* target.setFactors(vector.add(out, newOffsets, source.value.factors)) or
\* vector.subtract(out, source.value.factors, newOffsets), sign being 1 or -1
AddFactorOffsets(F, target, source, newOffsets, sign) ==
    Factors_setFactors(F, target,
        [i \in 1..Len(newOffsets) |-> F[source].factors[i] + sign * newOffsets[i]])

\* delta.offsets with delta undefined: a TypeError
UndefinedOffset(F) ==
    [F EXCEPT !.stats.undefinedOffsetUsed = TRUE, !.stats.threw = TRUE]

\* operations.add(target, source, delta)
Factors_add(F, target, source) ==
    IF F.d.kind = "undefined" THEN UndefinedOffset(F)
    ELSE
    AddFactorOffsets(Factors_update(F, source), target, source,
                     mapPerDimensionValues(F.d.offsets, F.d.cs, F.cs), 1)

\* operations.subtract(target, source, delta)
Factors_subtract(F, target, source) ==
    IF F.d.kind = "undefined" THEN UndefinedOffset(F)
    ELSE
    AddFactorOffsets(Factors_update(F, source), target, source,
                     mapPerDimensionValues(F.d.offsets, F.d.cs, F.cs), -1)

\* makeLinked's handlePeerUpdate with the operations of
\* LinkedRenderScaleFactors; isValid is () => true
Factors_PeerUpdateSwitch(F) ==
    IF F.link = UNLINKED THEN F
    ELSE IF F.link = RELATIVE THEN Factors_add(F, "self", "peer")
    ELSE Factors_assign(F, "self", "peer")

\* handlePeerUpdate's last statement, which an exception skips
LowerUpdatingSelf(F) == IF F.stats.threw THEN F ELSE [F EXCEPT !.updatingSelf = FALSE]

Factors_handlePeerUpdate(F) ==
    IF F.updatingPeer THEN F
    ELSE LowerUpdatingSelf(Factors_PeerUpdateSwitch([F EXCEPT !.updatingSelf = TRUE]))

\* makeLinked's handleSelfUpdate with the operations of LinkedRenderScaleFactors
Factors_handleSelfUpdate(F) ==
    IF F.updatingSelf \/ F.link = UNLINKED THEN F
    ELSE IF F.link = LINKED THEN Factors_assign(F, "peer", "self")
    ELSE Factors_subtract(F, "peer", "self")

\* who.changed.dispatch()
FactorsDispatch(F, who) ==
    IF F.stats.threw THEN F
    ELSE IF F.stats.selfDispatches + F.stats.peerDispatches >= MaxCascade
    THEN [F EXCEPT !.stats.overflow = TRUE]
    ELSE IF who = "self"
    THEN Factors_handleSelfUpdate([F EXCEPT !.stats.selfDispatches = @ + 1])
    ELSE Factors_handlePeerUpdate([F EXCEPT !.stats.peerDispatches = @ + 1])

\* The switch of makeLinked's handleLinkUpdate
Factors_LinkSwitch(F) ==
    IF F.link = F.prev THEN F
    ELSE IF F.link = UNLINKED THEN [F EXCEPT !.d = NoFactorOffset]
    ELSE IF F.link = LINKED
    THEN Factors_assign([F EXCEPT !.d = NoFactorOffset], "self", "peer")
    ELSE Factors_difference(F, "self", "peer")

\* makeLinked's handleLinkUpdate
\* handleLinkUpdate after its switch, which an exception skips
RecordLinkValue(F, linkValue) ==
    IF F.stats.threw THEN F ELSE FactorsDispatch([F EXCEPT !.prev = linkValue], "self")

Factors_handleLinkUpdate(F) == RecordLinkValue(Factors_LinkSwitch(F), F.link)

\* coordinateSpace.value = cs: coordinateSpace.changed calls peer's update(),
\* registered first, then self's
Factors_setCoordinateSpace(F, cs) ==
    Factors_update(Factors_update([F EXCEPT !.cs = cs], "peer"), "self")

\* new TrackableRenderScaleFactors(coordinateSpace): the constructor calls
\* update() before anything listens to changed
NewTrackableRenderScaleFactors(cs) ==
    [cur |-> cs,
     factors |-> RemapFactors(<<>>, DisplaySpaces[emptyCoordinateSpace], DisplaySpaces[cs])]

\* LinkedRenderScaleFactors.value: makeLinked(new
\* TrackableRenderScaleFactors(peer.coordinateSpace), peer, link, operations)
LinkedRenderScaleFactors(cs, peerValue, l) ==
    Factors_handleLinkUpdate(
        FactorCascade(cs, NewTrackableRenderScaleFactors(cs), peerValue, l,
                      NoFactorOffset, UNLINKED, FALSE, FALSE))

\* Factors and offsets of the states explored.
InFactorRange(seq) ==
    \A i \in 1..Len(seq) : seq[i] \in (-(MaxFactor + 1))..(MaxFactor + 1)

\* Factor arrays a caller passes to setFactors.
FactorInputs ==
    {<<>>} \cup {<<a>> : a \in 1..MaxFactor}
           \cup {<<a, b>> : a \in 1..MaxFactor, b \in 1..MaxFactor}

EmptyObject == [n \in {} |-> 0]

\* JSON values handed to restoreState: undefined, a number, or an object
\* with a number (0 stands for one that is not positive) under some names.
FactorJsonInputs ==
    {[t |-> "undefined", o |-> EmptyObject], [t |-> "number", o |-> EmptyObject],
     [t |-> "object", o |-> EmptyObject]}
    \cup {[t |-> "object", o |-> [n \in {"x"} |-> a]] : a \in 0..MaxFactor}
    \cup {[t |-> "object", o |-> [n \in {"x", "y"} |-> IF n = "x" THEN 1 ELSE a]] :
             a \in 0..MaxFactor}

\* The linked pair of a state in which it is not under study.
RenderScaleFactorsIdle ==
    /\ scaleFactors = [LinkedRenderScaleFactors(emptyCoordinateSpace,
                           NewRenderScaleFactors, LINKED) EXCEPT !.stats = NoFactorStats]
    /\ scaleOp = [op |-> "makeLinked", who |-> "self"] @@ NoFactorStats

-----------------------------------------------------------------------------
(* Numbers that divisions produce.  A number is a pair n/d of integers     *)
(* with no common divisor and d >= 0; 1/0 and -1/0 are the infinities and  *)
(* 0/0 is NaN, as IEEE division and multiplication produce them (signed    *)
(* zeros and rounding are not modelled).                                   *)

\* Largest exponent of a power of two that a default zoom is rounded to.
MaxLog == 12

Frac(n, d) ==
    IF d = 0 THEN [n |-> Sign(n), d |-> 0]
    ELSE [n |-> (Sign(d) * n) \div Gcd(Abs(n), Abs(d)),
          d |-> Abs(d) \div Gcd(Abs(n), Abs(d))]

Num(i) == [n |-> i, d |-> 1]

NaN == [n |-> 0, d |-> 0]

isNaN(x) == x = NaN

FracMul(a, b) == Frac(a.n * b.n, a.d * b.d)

FracInv(a) ==
    IF a.n > 0 THEN [n |-> a.d, d |-> a.n]
    ELSE IF a.n < 0 THEN [n |-> -a.d, d |-> -a.n]
    ELSE IF a.d = 0 THEN NaN ELSE [n |-> 1, d |-> 0]

FracDiv(a, b) == FracMul(a, FracInv(b))

\* a - b; the difference of equal infinities is NaN
FracSub(a, b) ==
    IF a.d = 0 /\ b.d = 0 THEN (IF a.n = -b.n /\ a.n # 0 THEN a ELSE NaN)
    ELSE Frac(a.n * b.d - b.n * a.d, a.d * b.d)

\* Math.max(a, b): NaN when either is NaN
FracMax(a, b) ==
    IF isNaN(a) \/ isNaN(b) THEN NaN
    ELSE IF a.n * b.d >= b.n * a.d THEN a ELSE b

\* Number.isFinite
isFinite(a) == a.d # 0

\* Whether verifyFinitePositiveFloat(x) raises an error for the number x:
\* it returns numbers that are finite and > 0.
NotFinitePositive(x) == x.n <= 0 \/ ~isFinite(x)

\* 2 ** k for an integer k >= 0
RECURSIVE Pow2(_)
Pow2(k) == IF k = 0 THEN 1 ELSE 2 * Pow2(k - 1)

\* 2 ** Math.ceil(Math.log2(value)) for a finite value >= 0: the least
\* power of two that is >= value, and 0 for 0 (log2 gives -Infinity).
\* Exponents run from -MaxLog to MaxLog.
PowerOfTwoAbove(value) ==
    IF value.n <= 0 THEN Num(0)
    ELSE IF value.n <= value.d
    THEN Frac(1, Pow2(CHOOSE k \in 0..MaxLog :
                        /\ Pow2(k) * value.n <= value.d
                        /\ (k = MaxLog \/ Pow2(k + 1) * value.n > value.d)))
    ELSE Num(Pow2(CHOOSE k \in 0..MaxLog :
                    /\ value.n <= Pow2(k) * value.d
                    /\ (k = 0 \/ value.n > Pow2(k - 1) * value.d)))

-----------------------------------------------------------------------------
(* TrackableRenderDimensions and TrackableCrossSectionZoom over one        *)
(* TrackableRenderScaleFactors.  The record D is the state of the three    *)
(* objects while one external operation and its handlers run:              *)
(*   cs    coordinateSpace.value                                           *)
(*   rsf   the RenderScaleFactors value object                             *)
(*   rd    default_, value_, and fresh: value_.renderScaleFactors is the   *)
(*         object rsf (every write of rsf makes a new object)              *)
(*   zoom  curCanonicalVoxelPhysicalSize, curCoordinateSpace, value_,      *)
(*         legacyValue_                                                    *)
(* A scale s of a coordinate space stands for s * 1e-9, so that            *)
(* legacyValue_ * 1e-9 / canonicalVoxelPhysicalSize is legacyValue_ / s.   *)

\* What an operation did (dispatches of renderDimensions.changed and of
\* zoom.changed, an exception, a default zoom taken) and the history of the
\* zoom value: origin is how value_ was last given ("set" by set value,
\* "default" by getDefaultValue, "none" otherwise), product the value times
\* the canonical voxel size at that moment, explicit whether set value or
\* restoreState ever gave a value, zeroSize whether a size of 0 has taken
\* part in a rescaling of it since.
NoDisplayStats ==
    [rdDispatches |-> 0, zoomDispatches |-> 0, overflow |-> FALSE, threw |-> FALSE,
     defaulted |-> FALSE, origin |-> "none", product |-> NaN, explicit |-> FALSE,
     zeroSize |-> FALSE]

\* private value_: RenderDimensions|undefined = undefined
UndefinedDimensions ==
    [defined |-> FALSE, rsf |-> NewRenderScaleFactors, rank |-> 0,
     dimensionIndices |-> <<-1, -1, -1>>, canonicalVoxelUnit |-> "",
     voxelPhysicalScales |-> <<1, 1, 1>>, canonicalVoxelPhysicalSize |-> 1,
     canonicalVoxelFactors |-> <<Num(1), Num(1), Num(1)>>]

\* The fields of a TrackableZoom as declared.
NewZoom ==
    [curCanonicalVoxelPhysicalSize |-> 0, curCoordinateSpace |-> emptyCoordinateSpace,
     value_ |-> NaN, legacyValue_ |-> NaN]

RECURSIVE Dimensions_Dispatch(_)

\* Math.min over the first rank elements, starting from POSITIVE_INFINITY
MinOf(seq, rank) ==
    CHOOSE s \in {seq[i] : i \in 1..rank} : \A i \in 1..rank : s <= seq[i]

\* The first loop of assignValue: factors[dim] * scales[dim], 1 past rank.
\* dimensionIndices holds the code's 0-based indices.
VoxelPhysicalScales(rsf, rank, dimensionIndices) ==
    [i \in 1..3 |->
        IF i > rank THEN 1
        ELSE rsf.factors[dimensionIndices[i] + 1]
                * DisplaySpaces[rsf.cur].scales[dimensionIndices[i] + 1]]

\* The object assignValue stores, scales being voxelPhysicalScales.
RenderDimensionsValue(rsf, rank, dimensionIndices, scales) ==
    [defined |-> TRUE, rsf |-> rsf, rank |-> rank, dimensionIndices |-> dimensionIndices,
     canonicalVoxelUnit |->
        IF rank = 0 THEN "" ELSE DisplaySpaces[rsf.cur].units[dimensionIndices[1] + 1],
     voxelPhysicalScales |-> scales,
     canonicalVoxelPhysicalSize |-> IF rank = 0 THEN 1 ELSE MinOf(scales, rank),
     canonicalVoxelFactors |->
        [i \in 1..3 |->
            IF i > rank THEN Num(1)
            ELSE FracDiv(Num(scales[i]), Num(MinOf(scales, rank)))]]

\* private assignValue(renderScaleFactors, rank, dimensionIndices),
\* renderScaleFactors being the current value object
assignValue(D, rank, dimensionIndices) ==
    Dimensions_Dispatch(
        [D EXCEPT !.rd.value_ =
                     RenderDimensionsValue(D.rsf, rank, dimensionIndices,
                         VoxelPhysicalScales(D.rsf, rank, dimensionIndices)),
                  !.rd.fresh = TRUE])

Min(a, b) == IF a < b THEN a ELSE b

\* An Int32Array(3) holding the indices seq, then -1
PadIndices(seq) == [i \in 1..3 |-> IF i <= Len(seq) THEN seq[i] ELSE -1]

\* private setToDefault(renderScaleFactors)
setToDefault(D) ==
    assignValue(D, Min(DisplaySpaces[D.rsf.cur].rank, 3),
                [i \in 1..3 |-> IF i <= Min(DisplaySpaces[D.rsf.cur].rank, 3)
                                THEN i - 1 ELSE -1])

\* rsf.value_ = value; rsf.changed.dispatch(), which the constructor of
\* TrackableRenderDimensions forwards to renderDimensions.changed
WriteFactors(D, value) ==
    Dimensions_Dispatch([D EXCEPT !.rsf = value, !.rd.fresh = FALSE])

\* TrackableRenderScaleFactors.update() of the single rsf
Display_updateFactors(D) ==
    IF D.rsf.cur = D.cs THEN D
    ELSE WriteFactors(D, [cur |-> D.cs,
                          factors |-> RemapFactors(D.rsf.factors, DisplaySpaces[D.rsf.cur],
                                                   DisplaySpaces[D.cs])])

\* TrackableRenderScaleFactors.setFactors(factors) of the single rsf
Display_setFactors(D, factors) ==
    IF Len(factors) # DisplaySpaces[D.cs].rank THEN D
    ELSE WriteFactors(D, [cur |-> D.cs, factors |-> factors])

\* TrackableRenderScaleFactors.restoreState(json) of the single rsf, json
\* being undefined or an object of positive numbers
Display_restoreFactors(D, json) ==
    WriteFactors(D, [cur |-> D.cs, factors |-> RestoredFactors(json, DisplaySpaces[D.cs])])

\* Mutant: the loop keeps the stored index of every displayed dimension
\* whose index the new space has, whatever its id.
RemappedIndices_ByIndex(value, sp) ==
    SelectSeq([i \in 1..value.rank |->
                  IF value.dimensionIndices[i] < sp.rank THEN value.dimensionIndices[i]
                  ELSE -1],
              LAMBDA newDim : newDim # -1)

\* The loop of update(): the displayed dimensions still present, by id.
RemappedIndices(value, sp) ==
    SelectSeq([i \in 1..value.rank |->
                  IndexOf(sp.dimensionIds,
                          DisplaySpaces[value.rsf.cur].dimensionIds[
                              value.dimensionIndices[i] + 1]) - 1],
              LAMBDA newDim : newDim # -1)

\* update() when the stored dimensions are remapped: assignValue and a
\* second dispatch
AssignRemapped(D, kept) ==
    Dimensions_Dispatch(assignValue(D, Len(kept), PadIndices(kept)))

\* Mutant: update() remaps the stored dimensions even when default_ is set.
UpdateDimensions_IgnoresDefault(D) ==
    IF D.rd.value_.defined /\ D.rd.fresh THEN D
    ELSE IF ~D.rd.value_.defined THEN setToDefault(D)
    ELSE IF RemappedIndices(D.rd.value_, DisplaySpaces[D.rsf.cur]) = <<>>
    THEN setToDefault([D EXCEPT !.rd.default_ = TRUE])
    ELSE AssignRemapped(D, RemappedIndices(D.rd.value_, DisplaySpaces[D.rsf.cur]))

\* update() once this.renderScaleFactors.value has been read
UpdateDimensions(D) ==
    IF D.rd.value_.defined /\ D.rd.fresh THEN D
    ELSE IF ~D.rd.value_.defined \/ D.rd.default_ THEN setToDefault(D)
    ELSE IF RemappedIndices(D.rd.value_, DisplaySpaces[D.rsf.cur]) = <<>>
    THEN setToDefault([D EXCEPT !.rd.default_ = TRUE])
    ELSE AssignRemapped(D, RemappedIndices(D.rd.value_, DisplaySpaces[D.rsf.cur]))

\* private update(), which get value() and get default() call
Dimensions_update(D) == UpdateDimensions(Display_updateFactors(D))

\* reset()
Dimensions_reset(D) ==
    Dimensions_Dispatch([D EXCEPT !.rd.default_ = TRUE, !.rd.value_ = UndefinedDimensions,
                                  !.rd.fresh = FALSE])

\* The loop of restoreState: the indices of the names the space has.
NamedIndices(names, sp) ==
    SelectSeq([i \in 1..Len(names) |-> IndexOf(sp.dimensionNames, names[i]) - 1],
              LAMBDA index : index # -1)

\* restoreState after this.renderScaleFactors.value has been read
RestoreDimensions(D, indices) ==
    IF indices = <<>> THEN Dimensions_reset(D)
    ELSE assignValue([D EXCEPT !.rd.default_ = FALSE], Len(indices), PadIndices(indices))

\* Mutant: the selection is reset before the number of names is checked.
Dimensions_restoreState_ResetsFirst(D, obj) ==
    IF obj.t = "undefined" THEN Dimensions_reset(D)
    ELSE IF Len(obj.names) > 3 THEN [Dimensions_reset(D) EXCEPT !.stats.threw = TRUE]
    ELSE RestoreDimensions(Display_updateFactors(D),
                           NamedIndices(obj.names, DisplaySpaces[D.cs]))

\* restoreState(obj): obj is undefined or an array, names being the list
\* dimensionNamesFromJson returns
Dimensions_restoreState(D, obj) ==
    IF obj.t = "undefined" THEN Dimensions_reset(D)
    ELSE IF Len(obj.names) > 3 THEN [D EXCEPT !.stats.threw = TRUE]
    ELSE RestoreDimensions(Display_updateFactors(D),
                           NamedIndices(obj.names, DisplaySpaces[D.cs]))

\* set default(value)
Dimensions_setDefault(D, value) ==
    IF D.rd.default_ = value THEN D
    ELSE IF value THEN setToDefault(Display_updateFactors([D EXCEPT !.rd.default_ = TRUE]))
    ELSE Dimensions_Dispatch([D EXCEPT !.rd.default_ = FALSE])

\* setDimensionIndices(rank, dimensionIndices)
setDimensionIndices(D, rank, dimensionIndices) ==
    assignValue(Display_updateFactors([D EXCEPT !.rd.default_ = FALSE]),
                rank, dimensionIndices)

\* assign(other), other being [default, rank, dimensionIndices] as
\* other.default and other.value return them
Dimensions_assign(D, other) ==
    IF other.default THEN Dimensions_setDefault(D, TRUE)
    ELSE setDimensionIndices(D, other.rank, other.dimensionIndices)

\* zoom.changed.dispatch(): nothing in this model listens
Zoom_Dispatch(D) == [D EXCEPT !.stats.zoomDispatches = @ + 1]

\* TrackableCrossSectionZoom.getDefaultValue()
getDefaultValue(D) ==
    IF isNaN(D.zoom.legacyValue_) THEN Num(1)
    ELSE FracDiv(D.zoom.legacyValue_, Num(D.rd.value_.canonicalVoxelPhysicalSize))

\* The extent of displayed dimension i (from 1) in canonical voxels:
\* (upperBounds[dim] - lowerBounds[dim]) * factor.  Where dimensionIndices[i]
\* is -1 the bounds read are undefined and the extent is NaN.
ProjectionExtent(D, i) ==
    IF D.rd.value_.dimensionIndices[i] = -1 THEN NaN
    ELSE FracMul(FracSub(DisplaySpaces[D.cs].upperBounds[D.rd.value_.dimensionIndices[i] + 1],
                         DisplaySpaces[D.cs].lowerBounds[D.rd.value_.dimensionIndices[i] + 1]),
                 D.rd.value_.canonicalVoxelFactors[i])

\* canonicalVoxelFactors.reduce(..., 0): over the three elements of the array
ProjectionMaxExtent(D) ==
    FracMax(FracMax(FracMax(Num(0), ProjectionExtent(D, 1)), ProjectionExtent(D, 2)),
            ProjectionExtent(D, 3))

\* What getDefaultValue makes of the reduced value
ProjectionRound(value) ==
    IF ~isFinite(value) THEN Num(1024) ELSE PowerOfTwoAbove(value)

\* TrackableProjectionZoom.getDefaultValue(), the value returned.  A legacy
\* value l of a projection zoom stands for l / (2 * 100 * tan(pi / 8)), so
\* that the legacy branch returns l / canonicalVoxelPhysicalSize.
Projection_getDefaultValue(D) ==
    IF ~isNaN(D.zoom.legacyValue_)
    THEN FracDiv(D.zoom.legacyValue_, Num(D.rd.value_.canonicalVoxelPhysicalSize))
    ELSE ProjectionRound(ProjectionMaxExtent(D))

\* getDefaultValue() of the class of the zoom
DefaultValue(D) ==
    IF D.projection THEN Projection_getDefaultValue(D) ELSE getDefaultValue(D)

\* this.value_ = this.getDefaultValue(); this.changed.dispatch().  The
\* getDefaultValue of a projection zoom clears legacyValue_.
TakeDefault(D, value) ==
    Zoom_Dispatch(
        [D EXCEPT !.zoom.value_ = value,
                  !.zoom.legacyValue_ = IF D.projection THEN NaN ELSE @,
                  !.stats.defaulted = TRUE,
                  !.stats.origin = "default",
                  !.stats.product =
                      FracMul(value, Num(D.rd.value_.canonicalVoxelPhysicalSize)),
                  !.stats.zeroSize = FALSE])

\* Mutant: a size change recomputes the value from the default.
Rescale_Recomputes(D, value_, cur, size) ==
    IF cur # 0 THEN Zoom_Dispatch([D EXCEPT !.zoom.value_ = getDefaultValue(D)]) ELSE D

\* The branch of handleCoordinateSpaceChanged for a value that is set
Rescale(D, value_, cur, size) ==
    IF cur # 0
    THEN Zoom_Dispatch(
            [D EXCEPT !.zoom.value_ = FracMul(value_, FracDiv(Num(cur), Num(size))),
                      !.stats.zeroSize = (@ \/ size = 0)])
    ELSE [D EXCEPT !.stats.zeroSize = TRUE]

\* handleCoordinateSpaceChanged after its reads: value_ was read first,
\* then renderDimensions.value, which left the state D
HandleSizeChange(D, value_) ==
    IF /\ D.rd.value_.canonicalVoxelPhysicalSize = D.zoom.curCanonicalVoxelPhysicalSize
       /\ D.zoom.curCoordinateSpace = D.cs
    THEN D
    ELSE IF ~isNaN(value_)
    THEN Rescale([D EXCEPT !.zoom.curCanonicalVoxelPhysicalSize =
                              D.rd.value_.canonicalVoxelPhysicalSize,
                           !.zoom.curCoordinateSpace = D.cs],
                 value_, D.zoom.curCanonicalVoxelPhysicalSize,
                 D.rd.value_.canonicalVoxelPhysicalSize)
    ELSE IF ~DisplaySpaces[D.cs].valid \/ D.rd.value_.canonicalVoxelPhysicalSize = 0
    THEN [D EXCEPT !.zoom.curCanonicalVoxelPhysicalSize =
                      D.rd.value_.canonicalVoxelPhysicalSize,
                   !.zoom.curCoordinateSpace = D.cs]
    ELSE TakeDefault([D EXCEPT !.zoom.curCanonicalVoxelPhysicalSize =
                                  D.rd.value_.canonicalVoxelPhysicalSize,
                               !.zoom.curCoordinateSpace = D.cs],
                     DefaultValue(D))

\* TrackableZoom.handleCoordinateSpaceChanged(), which get value() calls
Zoom_handleCoordinateSpaceChanged(D) == HandleSizeChange(Dimensions_update(D), D.zoom.value_)

\* renderDimensions.changed.dispatch(): the zoom's listener
Dimensions_Dispatch(D) ==
    IF D.stats.rdDispatches >= MaxCascade THEN [D EXCEPT !.stats.overflow = TRUE]
    ELSE Zoom_handleCoordinateSpaceChanged([D EXCEPT !.stats.rdDispatches = @ + 1])

\* set value(value) after renderDimensions.value has been read
StoreZoom(D, value) ==
    Zoom_Dispatch(
        [D EXCEPT !.zoom.curCanonicalVoxelPhysicalSize =
                      D.rd.value_.canonicalVoxelPhysicalSize,
                  !.zoom.legacyValue_ = NaN,
                  !.zoom.value_ = value,
                  !.stats.origin = "set",
                  !.stats.explicit = TRUE,
                  !.stats.product =
                      FracMul(value, Num(D.rd.value_.canonicalVoxelPhysicalSize)),
                  !.stats.zeroSize = (D.rd.value_.canonicalVoxelPhysicalSize = 0)])

\* set value(value)
Zoom_setValue(D, value) == StoreZoom(Dimensions_update(D), value)

\* set legacyValue(value)
Zoom_setLegacyValue(D, value) ==
    Zoom_Dispatch(
        [D EXCEPT !.zoom.curCoordinateSpace = emptyCoordinateSpace,
                  !.zoom.value_ = NaN,
                  !.zoom.legacyValue_ = value,
                  !.stats.origin = "none", !.stats.product = NaN,
                  !.stats.zeroSize = FALSE])

\* restoreState(obj): obj is undefined (NaN here), a positive number, or
\* a number verifyFinitePositiveFloat throws on
Zoom_restoreState(D, obj) ==
    IF ~isNaN(obj) /\ NotFinitePositive(obj)
    THEN [D EXCEPT !.zoom.curCanonicalVoxelPhysicalSize = 0,
                   !.zoom.curCoordinateSpace = emptyCoordinateSpace,
                   !.zoom.legacyValue_ = NaN,
                   !.stats.origin = "none", !.stats.product = NaN,
                   !.stats.threw = TRUE]
    ELSE Zoom_Dispatch(
            [D EXCEPT !.zoom = [NewZoom EXCEPT !.value_ = obj],
                      !.stats.origin = "none", !.stats.product = NaN,
                      !.stats.explicit = @ \/ ~isNaN(obj),
                      !.stats.zeroSize = FALSE])

\* reset()
Zoom_reset(D) ==
    Zoom_Dispatch([D EXCEPT !.zoom = NewZoom,
                            !.stats.origin = "none", !.stats.product = NaN,
                            !.stats.zeroSize = FALSE])

\* coordinateSpace.value = cs: coordinateSpace.changed calls the update() of
\* the rsf, then the zoom's handleCoordinateSpaceChanged
Display_setCoordinateSpace(D, cs) ==
    Zoom_handleCoordinateSpaceChanged(Display_updateFactors([D EXCEPT !.cs = cs]))

\* new TrackableRenderDimensions(rsf): the constructor's update() stores the
\* default value before anything listens to changed
NewTrackableRenderDimensions(rsf) ==
    [default_ |-> TRUE, fresh |-> TRUE,
     value_ |-> RenderDimensionsValue(rsf, Min(DisplaySpaces[rsf.cur].rank, 3),
                    [i \in 1..3 |-> IF i <= Min(DisplaySpaces[rsf.cur].rank, 3)
                                    THEN i - 1 ELSE -1],
                    VoxelPhysicalScales(rsf, Min(DisplaySpaces[rsf.cur].rank, 3),
                        [i \in 1..3 |-> i - 1]))]

\* new TrackableCrossSectionZoom(new TrackableRenderDimensions(new
\* TrackableRenderScaleFactors(coordinateSpace))): the zoom's constructor
\* calls handleCoordinateSpaceChanged
NewDisplay(cs) ==
    Zoom_handleCoordinateSpaceChanged(
        [cs |-> cs, rsf |-> NewTrackableRenderScaleFactors(cs),
         rd |-> NewTrackableRenderDimensions(NewTrackableRenderScaleFactors(cs)),
         zoom |-> NewZoom, projection |-> FALSE, stats |-> NoDisplayStats])

\* The same with new TrackableProjectionZoom
NewProjectionDisplay(cs) ==
    Zoom_handleCoordinateSpaceChanged(
        [cs |-> cs, rsf |-> NewTrackableRenderScaleFactors(cs),
         rd |-> NewTrackableRenderDimensions(NewTrackableRenderScaleFactors(cs)),
         zoom |-> NewZoom, projection |-> TRUE, stats |-> NoDisplayStats])

\* Factor arrays a caller passes to setFactors in a space of the given rank:
\* the first factor varies.  A factor 0 is one the linked pair reaches from
\* positive factors.
DisplayFactorInputs(rank) ==
    {[i \in 1..rank |-> IF i = 1 THEN a ELSE 1] : a \in 0..MaxFactor}

\* JSON values handed to the restoreState of the rsf.
DisplayFactorJsonInputs ==
    {[t |-> "undefined", o |-> EmptyObject], [t |-> "object", o |-> [n \in {"x"} |-> 2]]}

\* Largest numerator and denominator of a zoom value of the states explored.
MaxZoom == 16

\* The same for a projection zoom, whose default may be 1024.
MaxProjectionZoom == 2048

\* Zoom values a caller passes in.
ZoomInputs == {Num(1), Num(2)}

\* Legacy zoom values a caller passes in.
LegacyZoomInputs == {Num(8)}

\* JSON values handed to the zoom's restoreState: undefined, a positive
\* number, a number that is not positive.
ZoomJsonInputs == {NaN, Num(2), Num(0)}

\* JSON values handed to the restoreState of the render dimensions.
DimensionJsonInputs ==
    {[t |-> "undefined", names |-> <<>>]}
    \cup {[t |-> "array", names |-> names] :
             names \in {<<>>, <<"x">>, <<"t", "q">>, <<"x", "y", "z", "t">>}}

\* Dimensions a caller displays: rank and 0-based indices within the space.
DimensionIndexInputs(spaceRank) ==
    {[rank |-> 0, dimensionIndices |-> <<-1, -1, -1>>]}
    \cup {[rank |-> 1, dimensionIndices |-> <<a, -1, -1>>] :
             a \in {0, spaceRank - 1} \cap 0..(spaceRank - 1)}
    \cup (IF spaceRank >= 2 THEN {[rank |-> 2, dimensionIndices |-> <<1, 0, -1>>]} ELSE {})
    \cup (IF spaceRank >= 4 THEN {[rank |-> 3, dimensionIndices |-> <<0, 1, 3>>]} ELSE {})

\* OrientationState.toJSON(): the array of the normalized quaternion, or
\* undefined for the identity
Orientation_toJSON(orientation) ==
    IF quatNormalize(orientation) = quatIdentity THEN [t |-> "undefined", a |-> <<>>]
    ELSE [t |-> "array", a |-> quatNormalize(orientation)]

\* TrackableRenderScaleFactors.toJSON() of the value read: the factors that
\* are not 1 under the names of their dimensions, or undefined
Factors_toJSON(value) ==
    IF \A i \in 1..Len(value.factors) : value.factors[i] = 1
    THEN [t |-> "undefined", o |-> EmptyObject]
    ELSE [t |-> "object",
          o |-> [n \in {DisplaySpaces[value.cur].dimensionNames[i] :
                          i \in {k \in 1..Len(value.factors) : value.factors[k] # 1}} |->
                    value.factors[IndexOf(DisplaySpaces[value.cur].dimensionNames, n)]]]

\* TrackableRenderDimensions.toJSON() after "const {value} = this"
DimensionNamesOf(value) ==
    IF value.rank = 0 THEN [t |-> "undefined", names |-> <<>>]
    ELSE [t |-> "array",
          names |-> [i \in 1..value.rank |->
                        DisplaySpaces[value.rsf.cur].dimensionNames[
                            value.dimensionIndices[i] + 1]]]

\* TrackableRenderDimensions.toJSON(): the state it leaves and the JSON value
Dimensions_toJSON(D) ==
    IF D.rd.default_ THEN [D |-> D, json |-> [t |-> "undefined", names |-> <<>>]]
    ELSE \* default_ is tested before the value is read
         [D |-> Dimensions_update(D),
          json |-> DimensionNamesOf(Dimensions_update(D).rd.value_)]

\* TrackableZoom.toJSON(): the state it leaves and the JSON value, NaN
\* standing for undefined
Zoom_toJSON(D) ==
    [D |-> Zoom_handleCoordinateSpaceChanged(D),
     json |-> Zoom_handleCoordinateSpaceChanged(D).zoom.value_]

\* link.value = l of a pair's TrackableNavigationLink: the setter dispatches
\* link.changed, which calls handleLinkUpdate, when the value changes
setLinkValue(S, l) ==
    IF S.link = l THEN S ELSE handleLinkUpdate([S EXCEPT !.link = l])

\* JSON of a link wrapper: undefined, an object without keys, or an object
\* with the link mode and the JSON of the value
UndefinedLinkJson(valueJson) == [t |-> "undefined", link |-> LINKED, value |-> valueJson]

EmptyLinkJson(valueJson) == [t |-> "empty", link |-> LINKED, value |-> valueJson]

\* LinkedBase.toJSON() of a wrapper in link mode l, T the value's toJSON()
Linked_toJSON(T, l) ==
    IF l = LINKED THEN UndefinedLinkJson(UndefinedJson)
    ELSE [t |-> "object", link |-> l, value |-> T.json]

\* LinkedPosition.toJSON(): the cascade it leaves and the JSON it returns
LinkedPosition_toJSON(S) ==
    IF S.link = LINKED THEN [S |-> S, json |-> Linked_toJSON([json |-> UndefinedJson], LINKED)]
    ELSE [S |-> toJSON(S, "self").S, json |-> Linked_toJSON(toJSON(S, "self"), S.link)]

\* verifyObjectProperty(json, 'link', x => link.restoreState(x)), which an
\* exception of the value's restoreState skips
RestoreLink(S, json) ==
    IF S.stats.parseError THEN S ELSE setLinkValue(S, json.link)

\* restoreLinkedFromJson after "link.value = UNLINKED": the value is
\* restored when the object has one, then the link; an exception of the
\* value's restoreState leaves before the link is restored
RestoreValueThenLink(S, json) ==
    RestoreLink(IF json.value.t = "undefined" THEN S
                ELSE restoreState(S, "self", json.value), json)

\* Mutant: restoreLinkedFromJson does not switch to UNLINKED first.
restoreLinkedFromJson_NoUnlink(S, json) ==
    IF json.t \in {"undefined", "empty"} THEN setLinkValue(S, LINKED)
    ELSE RestoreValueThenLink(S, json)

\* restoreLinkedFromJson(link, value, json) of a LinkedPosition
restoreLinkedFromJson(S, json) ==
    IF json.t \in {"undefined", "empty"} THEN setLinkValue(S, LINKED)
    ELSE RestoreValueThenLink(setLinkValue(S, UNLINKED), json)

\* Mutant: copyToPeer goes to LINKED without assigning to peer first.
copyToPeer_NoAssign(S) ==
    IF S.link = LINKED THEN S
    ELSE setLinkValue(setLinkValue(S, UNLINKED), LINKED)

\* LinkedBase.copyToPeer() of a LinkedPosition
copyToPeer(S) ==
    IF S.link = LINKED THEN S
    ELSE setLinkValue(assign(setLinkValue(S, UNLINKED), "peer", "self"), LINKED)

\* The same of a LinkedRenderScaleFactors
Factors_setLinkValue(F, l) ==
    IF F.link = l \/ F.stats.threw THEN F
    ELSE Factors_handleLinkUpdate([F EXCEPT !.link = l])

\* What toJSON() returns to a caller that gets an exception instead.
ThrownLinkJson(valueJson) == [t |-> "thrown", link |-> LINKED, value |-> valueJson]

\* LinkedBase.toJSON() after the test of the link mode: F is the state the
\* read of the value by getValueJson left
LinkedFactors_JsonOf(F) ==
    [F |-> F,
     json |-> IF F.stats.threw THEN ThrownLinkJson(Factors_toJSON(NewRenderScaleFactors))
              ELSE [t |-> "object", link |-> F.link, value |-> Factors_toJSON(F.self)]]

\* LinkedBase.toJSON() of a LinkedRenderScaleFactors: the state it leaves
\* and the JSON it returns
LinkedFactors_toJSON(F) ==
    IF F.link = LINKED
    THEN [F |-> F, json |-> UndefinedLinkJson(Factors_toJSON(NewRenderScaleFactors))]
    ELSE LinkedFactors_JsonOf(Factors_update(F, "self"))

Factors_RestoreValueThenLink(F, json) ==
    Factors_setLinkValue(
        IF json.value.t = "undefined" THEN F
        ELSE Factors_restoreState(F, "self", json.value),
        json.link)

Factors_restoreLinkedFromJson(F, json) ==
    IF json.t \in {"undefined", "empty"} THEN Factors_setLinkValue(F, LINKED)
    ELSE Factors_RestoreValueThenLink(Factors_setLinkValue(F, UNLINKED), json)

-----------------------------------------------------------------------------
(* LinkedZoomState.  The record P is the state of the pair while one       *)
(* external operation and its handlers run: self and peer are display      *)
(* states (a zoom over its own TrackableRenderDimensions and scale         *)
(* factors, both over the one coordinate space), d is selfMinusPeer, here  *)
(* a ratio; zeroSize records that a canonical voxel size of 0 was seen.    *)
(* Every call on a zoom, its render dimensions or the link goes through    *)
(* Step, which delivers the dispatches of the call to makeLinked's         *)
(* handlers.                                                               *)

RECURSIVE Step(_, _, _)

\* What an operation on the pair did: the dispatches of the two changed
\* signals, and threw, an exception that reached the caller.
NoZoomPairStats ==
    [selfDispatches |-> 0, peerDispatches |-> 0, overflow |-> FALSE,
     threw |-> FALSE, undefinedOffsetUsed |-> FALSE]

\* selfMinusPeer = undefined
NoRatio == [defined |-> FALSE, v |-> NaN]

\* A call on a zoom, its render dimensions, their scale factors or the link
ZoomOp(kind) ==
    [kind |-> kind, value |-> NaN, rank |-> 0, dimensionIndices |-> <<-1, -1, -1>>,
     factors |-> <<>>]

\* The display state D after the call op
ZoomStep(D, op) ==
    CASE op.kind = "getValue" -> Zoom_handleCoordinateSpaceChanged(D)
      [] op.kind = "renderDimensions.value" -> Dimensions_update(D)
      [] op.kind = "store" -> StoreZoom(D, op.value)
      [] op.kind = "changed.dispatch" -> Zoom_Dispatch(D)
      [] op.kind = "setValue" -> Zoom_setValue(D, op.value)
      [] op.kind = "reset" -> Zoom_reset(D)
      [] op.kind = "restoreState" -> Zoom_restoreState(D, op.value)
      [] op.kind = "setDimensionIndices" ->
             setDimensionIndices(D, op.rank, op.dimensionIndices)
      [] op.kind = "setFactors" -> Display_setFactors(D, op.factors)
      [] op.kind = "coordinateSpace.changed" -> Display_setCoordinateSpace(D, D.cs)

\* get value() of who
ReadValue(P, who) == Step(P, who, ZoomOp("getValue"))

\* who.renderDimensions.value
ReadSize(P, who) == Step(P, who, ZoomOp("renderDimensions.value"))

\* get canonicalVoxelPhysicalSize() once renderDimensions.value was read
SizeOf(P, who) == P[who].rd.value_.canonicalVoxelPhysicalSize

\* setPhysicalScale after its read of renderDimensions.value
StorePhysicalScale(P, target, scaleInCanonicalVoxels, canonicalVoxelPhysicalSize) ==
    Step(P, target,
         [ZoomOp("store") EXCEPT !.value =
              FracMul(scaleInCanonicalVoxels,
                      FracDiv(Num(canonicalVoxelPhysicalSize), Num(SizeOf(P, target))))])

\* setPhysicalScale(scaleInCanonicalVoxels, canonicalVoxelPhysicalSize)
setPhysicalScale(P, target, scaleInCanonicalVoxels, canonicalVoxelPhysicalSize) ==
    StorePhysicalScale(ReadSize(P, target), target, scaleInCanonicalVoxels,
                       canonicalVoxelPhysicalSize)

\* The arguments of setPhysicalScale are evaluated first: source.value,
\* then source.canonicalVoxelPhysicalSize.
ScaleAfterSize(P, target, source, scale) ==
    setPhysicalScale(P, target, scale, SizeOf(P, source))

\* assign(target, source): target.setPhysicalScale(source.value,
\* source.canonicalVoxelPhysicalSize)
AssignAfterValue(P, target, source) ==
    ScaleAfterSize(ReadSize(P, source), target, source, P[source].zoom.value_)

LinkedZoom_assign(P, target, source) ==
    AssignAfterValue(ReadValue(P, source), target, source)

\* selfMinusPeer as add and subtract use it: undefined gives NaN
RatioOf(d) == IF d.defined THEN d.v ELSE NaN

NoteRatio(P) == [P EXCEPT !.stats.undefinedOffsetUsed = @ \/ ~P.d.defined]

\* add(target, source, amount): target.setPhysicalScale(source.value *
\* amount, source.canonicalVoxelPhysicalSize)
AddAfterValue(P, target, source, amount) ==
    ScaleAfterSize(ReadSize(P, source), target, source,
                   FracMul(P[source].zoom.value_, amount))

LinkedZoom_add(P, target, source, amount) ==
    AddAfterValue(ReadValue(NoteRatio(P), source), target, source, RatioOf(amount))

\* subtract(target, source, amount): target.setPhysicalScale(source.value /
\* amount, source.canonicalVoxelPhysicalSize)
SubtractAfterValue(P, target, source, amount) ==
    ScaleAfterSize(ReadSize(P, source), target, source,
                   FracDiv(P[source].zoom.value_, amount))

LinkedZoom_subtract(P, target, source, amount) ==
    SubtractAfterValue(ReadValue(NoteRatio(P), source), target, source, RatioOf(amount))

\* difference(a, b): (a.value / b.value) * (a.canonicalVoxelPhysicalSize /
\* b.canonicalVoxelPhysicalSize), read from left to right
StoreDifference(P, a, b, aValue, bValue, aSize) ==
    [P EXCEPT !.d = [defined |-> TRUE,
                     v |-> FracMul(FracDiv(aValue, bValue),
                                   FracDiv(Num(aSize), Num(SizeOf(P, b))))]]

DifferenceAfterSize(P, a, b, aValue, bValue) ==
    StoreDifference(ReadSize(P, b), a, b, aValue, bValue, SizeOf(P, a))

DifferenceAfterValues(P, a, b, aValue) ==
    DifferenceAfterSize(ReadSize(P, a), a, b, aValue, P[b].zoom.value_)

DifferenceAfterValue(P, a, b) ==
    DifferenceAfterValues(ReadValue(P, b), a, b, P[a].zoom.value_)

LinkedZoom_difference(P, a, b) == DifferenceAfterValue(ReadValue(P, a), a, b)

\* The UNLINKED case of handlePeerUpdate: isValid(self) is
\* x.coordinateSpace.value.valid && x.canonicalVoxelPhysicalSize !== 0
UnlinkedAfterSize(P) ==
    IF SizeOf(P, "self") # 0 THEN P ELSE LinkedZoom_assign(P, "self", "peer")

LinkedZoom_PeerUpdateSwitch(P) ==
    IF P.link = UNLINKED
    THEN IF ~DisplaySpaces[P.self.cs].valid THEN LinkedZoom_assign(P, "self", "peer")
         ELSE UnlinkedAfterSize(ReadSize(P, "self"))
    ELSE IF P.link = LINKED THEN LinkedZoom_assign(P, "self", "peer")
    ELSE LinkedZoom_add(P, "self", "peer", P.d)

\* makeLinked's handlePeerUpdate
LinkedZoom_handlePeerUpdate(P) ==
    IF P.updatingPeer THEN P
    ELSE [LinkedZoom_PeerUpdateSwitch([P EXCEPT !.updatingSelf = TRUE])
             EXCEPT !.updatingSelf = FALSE]

\* makeLinked's handleSelfUpdate
LinkedZoom_handleSelfUpdate(P) ==
    IF P.updatingSelf \/ P.link = UNLINKED THEN P
    ELSE IF P.link = LINKED THEN LinkedZoom_assign(P, "peer", "self")
    ELSE LinkedZoom_subtract(P, "peer", "self", P.d)

\* who.changed.dispatch()
LinkedZoom_Dispatch(P, who) ==
    IF P.stats.overflow THEN P
    ELSE IF P.stats.selfDispatches + P.stats.peerDispatches >= MaxCascade
    THEN [P EXCEPT !.stats.overflow = TRUE]
    ELSE IF who = "self"
    THEN LinkedZoom_handleSelfUpdate([P EXCEPT !.stats.selfDispatches = @ + 1])
    ELSE LinkedZoom_handlePeerUpdate([P EXCEPT !.stats.peerDispatches = @ + 1])

\* A display state between two calls.
Observed(D) == [D EXCEPT !.stats = NoDisplayStats]

\* The pair P with who in state D
WithDisplay(P, who, D) ==
    [P EXCEPT ![who] = Observed(D),
              !.zeroSize = @ \/ D.rd.value_.canonicalVoxelPhysicalSize = 0]

\* The pair after a call on who's zoom or render dimensions left who in
\* state D: a dispatch of the zoom's changed signal, the last thing such a
\* call does, calls the handler makeLinked registered.  A call that threw
\* (restoreState) dispatched nothing.
Delivered(P, who, D) ==
    IF D.stats.overflow THEN [P EXCEPT !.stats.overflow = TRUE]
    ELSE IF D.stats.threw THEN [WithDisplay(P, who, D) EXCEPT !.stats.threw = TRUE]
    ELSE IF D.stats.zoomDispatches > 0 THEN LinkedZoom_Dispatch(WithDisplay(P, who, D), who)
    ELSE WithDisplay(P, who, D)

\* The switch of makeLinked's handleLinkUpdate
LinkedZoom_LinkSwitch(P) ==
    IF P.link = P.prev THEN P
    ELSE IF P.link = UNLINKED THEN [P EXCEPT !.d = NoRatio]
    ELSE IF P.link = LINKED
    THEN LinkedZoom_assign([P EXCEPT !.d = NoRatio], "self", "peer")
    ELSE LinkedZoom_difference(P, "self", "peer")

\* previousLinkValue = linkValue; self.changed.dispatch()
LinkedZoom_RecordLinkValue(P, linkValue) ==
    Step([P EXCEPT !.prev = linkValue], "self", ZoomOp("changed.dispatch"))

\* makeLinked's handleLinkUpdate
LinkedZoom_handleLinkUpdate(P) == LinkedZoom_RecordLinkValue(LinkedZoom_LinkSwitch(P), P.link)

\* The pair after the call op on who (on the link: link.changed.dispatch())
\* and the handlers it called
Step(P, who, op) ==
    IF op.kind = "link.changed" THEN LinkedZoom_handleLinkUpdate(P)
    ELSE Delivered(P, who, ZoomStep(P[who], op))

\* link.value = l, which dispatches link.changed when the value changes;
\* not reached after an exception
LinkedZoom_setLink(P, l) ==
    IF P.link = l \/ P.stats.threw THEN P
    ELSE Step([P EXCEPT !.link = l], "link", ZoomOp("link.changed"))

\* LinkedBase.copyToPeer() of a LinkedZoomState
LinkedZoom_copyToPeer(P) ==
    IF P.link = LINKED THEN P
    ELSE LinkedZoom_setLink(
             LinkedZoom_assign(LinkedZoom_setLink(P, UNLINKED), "peer", "self"), LINKED)

\* new LinkedZoomState(peer, renderDimensions) with link mode l, both zooms
\* cross-section zooms over the coordinate space cs: makeLinked ends with a
\* call of handleLinkUpdate
LinkedZoomState(cs, l) ==
    Step([self |-> Observed(NewDisplay(cs)), peer |-> Observed(NewDisplay(cs)),
          link |-> l, d |-> NoRatio, prev |-> UNLINKED,
          updatingSelf |-> FALSE, updatingPeer |-> FALSE, zeroSize |-> FALSE,
          stats |-> NoZoomPairStats],
         "link", ZoomOp("link.changed"))

\* JSON of a LinkedZoomState: undefined, or an object with the link mode
\* and the JSON of the zoom, NaN standing for no value
UndefinedZoomLinkJson == [t |-> "undefined", link |-> LINKED, value |-> NaN]

\* restoreLinkedFromJson after "link.value = UNLINKED": the zoom is restored
\* when the object has a value, then the link, unless restoreState of the
\* zoom threw
LinkedZoom_RestoreValueThenLink(P, json) ==
    LinkedZoom_setLink(
        IF isNaN(json.value) THEN P
        ELSE Step(P, "self", [ZoomOp("restoreState") EXCEPT !.value = json.value]),
        json.link)

\* LinkedBase.restoreState(obj) of a LinkedZoomState
LinkedZoom_restoreState(P, json) ==
    IF json.t = "undefined" THEN LinkedZoom_setLink(P, LINKED)
    ELSE LinkedZoom_RestoreValueThenLink(LinkedZoom_setLink(P, UNLINKED), json)

\* LinkedBase.toJSON() of a LinkedZoomState after the test of the link
\* mode: P is the pair the read of self.value left
LinkedZoom_JsonOf(P) ==
    [P |-> P, json |-> [t |-> "object", link |-> P.link, value |-> P.self.zoom.value_]]

\* LinkedBase.toJSON() of a LinkedZoomState: the pair it leaves and the
\* JSON it returns
LinkedZoom_toJSON(P) ==
    IF P.link = LINKED THEN [P |-> P, json |-> UndefinedZoomLinkJson]
    ELSE LinkedZoom_JsonOf(ReadValue(P, "self"))

\* who.value = value
LinkedZoom_setValue(P, who, value) ==
    Step(P, who, [ZoomOp("setValue") EXCEPT !.value = value])

\* who.reset()
LinkedZoom_reset(P, who) == Step(P, who, ZoomOp("reset"))

\* who.renderDimensions.setDimensionIndices(rank, dimensionIndices)
LinkedZoom_setDimensionIndices(P, who, rank, dimensionIndices) ==
    Step(P, who, [ZoomOp("setDimensionIndices") EXCEPT
                     !.rank = rank, !.dimensionIndices = dimensionIndices])

\* setFactors(factors) of the scale factors of who's render dimensions
LinkedZoom_setFactors(P, who, factors) ==
    Step(P, who, [ZoomOp("setFactors") EXCEPT !.factors = factors])

\* coordinateSpace.value = cs: the listeners of peer's objects, constructed
\* first, run before those of self's
LinkedZoom_setCoordinateSpace(P, cs) ==
    Step(Step([P EXCEPT !.self.cs = cs, !.peer.cs = cs],
              "peer", ZoomOp("coordinateSpace.changed")),
         "self", ZoomOp("coordinateSpace.changed"))

-----------------------------------------------------------------------------
(* Pose: a Position, an OrientationState and a TrackableRenderDimensions,  *)
(* none of them linked.  Coordinates, bounds and translations are numbers  *)
(* n/d; the record P is the state of the Pose while one operation runs,    *)
(* its stats counting the dispatches of each changed signal.               *)

\* Largest magnitude of a coordinate of the poses explored.
MaxPoseCoord == 1

\* -a
FracNeg(a) == [n |-> -a.n, d |-> a.d]

\* a + b; the sum of opposite infinities is NaN
FracAdd(a, b) == FracSub(a, FracNeg(b))

\* Math.min(a, b): NaN when either is NaN
FracMin(a, b) ==
    IF isNaN(a) \/ isNaN(b) THEN NaN
    ELSE IF a.n * b.d <= b.n * a.d THEN a ELSE b

\* Math.floor, Math.ceil and Math.round (halves go up) of a finite number
FracFloor(a) == Num(a.n \div a.d)

FracCeil(a) == Num(-((-a.n) \div a.d))

FracRound(a) == Num((2 * a.n + a.d) \div (2 * a.d))

\* The coordinate spaces of the Pose: empty is emptyCoordinateSpace; XT has
\* a dimension x with bounds [0.5, 1.5] and a dimension t without bounds;
\* X has the dimension x alone, at twice the scale, with bounds [0, 2].
PoseSpaces ==
    [ empty |-> [valid |-> FALSE, rank |-> 0, dimensionIds |-> <<>>, scales |-> <<>>,
                 lowerBounds |-> <<>>, upperBounds |-> <<>>],
      XT    |-> [valid |-> TRUE, rank |-> 2, dimensionIds |-> <<1, 2>>,
                 scales |-> <<1, 2>>,
                 lowerBounds |-> <<[n |-> 1, d |-> 2], [n |-> -1, d |-> 0]>>,
                 upperBounds |-> <<[n |-> 3, d |-> 2], [n |-> 1, d |-> 0]>>],
      X     |-> [valid |-> TRUE, rank |-> 1, dimensionIds |-> <<1>>,
                 scales |-> <<2>>,
                 lowerBounds |-> <<[n |-> 0, d |-> 1]>>,
                 upperBounds |-> <<[n |-> 2, d |-> 1]>>] ]

PoseSpaceNames == DOMAIN PoseSpaces

\* getCenterBound(lower, upper) of coordinate_transform: the middle, or 0
\* clamped to the bounds when the middle is not finite
Pose_getCenterBound(lower, upper) ==
    IF isFinite(FracMul(FracAdd(lower, upper), Frac(1, 2)))
    THEN FracMul(FracAdd(lower, upper), Frac(1, 2))
    ELSE FracMin(FracMax(Num(0), lower), upper)

NoPoseStats == [changed |-> 0, position |-> 0, orientation |-> 0, renderDimensions |-> 0]

\* position.changed.dispatch(): the Pose's listener dispatches Pose.changed
Pose_positionDispatch(P) ==
    [P EXCEPT !.stats.position = @ + 1, !.stats.changed = @ + 1]

\* orientation.changed.dispatch(): the same
Pose_orientationDispatch(P) ==
    [P EXCEPT !.stats.orientation = @ + 1, !.stats.changed = @ + 1]

\* renderDimensions.changed.dispatch(): the same
Pose_renderDimensionsDispatch(P) ==
    [P EXCEPT !.stats.renderDimensions = @ + 1, !.stats.changed = @ + 1]

\* renderScaleFactors.changed.dispatch(): the render dimensions pass it on
\* to their own changed signal
Pose_renderScaleFactorsDispatch(P) == Pose_renderDimensionsDispatch(P)

\* The coordinate of the dimension newDim (from 1) of the new space, oldDim
\* (from 1, 0 when there is none) being the dimension of the previous space
\* with the same id
MatchedCoordinate(P, oldDim, newDim) ==
    IF oldDim = 0
    THEN Pose_getCenterBound(PoseSpaces[P.cs].lowerBounds[newDim],
                             PoseSpaces[P.cs].upperBounds[newDim])
    ELSE FracMul(P.position.coords[oldDim],
                 Frac(PoseSpaces[P.position.cur].scales[oldDim],
                      PoseSpaces[P.cs].scales[newDim]))

\* The coordinates handleCoordinateSpaceChanged() stores when the previous
\* space is valid: dimensions matched by id
MatchedCoordinates(P) ==
    [newDim \in 1..PoseSpaces[P.cs].rank |->
        MatchedCoordinate(P,
                          IndexOf(PoseSpaces[P.position.cur].dimensionIds,
                                  PoseSpaces[P.cs].dimensionIds[newDim]),
                          newDim)]

\* The coordinates it stores when the previous space is undefined or not
\* valid: the existing ones if their number is the rank, else the centre
KeptOrCentre(P) ==
    IF Len(P.position.coords) = PoseSpaces[P.cs].rank THEN P.position.coords
    ELSE [i \in 1..PoseSpaces[P.cs].rank |->
             Pose_getCenterBound(PoseSpaces[P.cs].lowerBounds[i],
                                 PoseSpaces[P.cs].upperBounds[i])]

\* Position.handleCoordinateSpaceChanged() of the Pose's position
Pose_handleCoordinateSpaceChanged(P) ==
    IF P.position.cur = P.cs THEN P
    ELSE IF ~PoseSpaces[P.cs].valid THEN [P EXCEPT !.position.cur = P.cs]
    ELSE IF P.position.cur = Undefined \/ ~PoseSpaces[P.position.cur].valid
    THEN Pose_positionDispatch(
            [P EXCEPT !.position = [cur |-> P.cs, coords |-> KeptOrCentre(P)]])
    ELSE Pose_positionDispatch(
            [P EXCEPT !.position = [cur |-> P.cs, coords |-> MatchedCoordinates(P)]])

\* Position.reset() of the Pose's position
Pose_positionReset(P) ==
    Pose_positionDispatch([P EXCEPT !.position = [cur |-> Undefined, coords |-> <<>>]])

\* Position.restoreState(obj) of the Pose's position, obj being undefined
\* or an array of finite numbers
Pose_positionRestoreState(P, obj) ==
    IF obj.t = "undefined" THEN Pose_positionReset(P)
    ELSE Pose_positionDispatch(
            Pose_handleCoordinateSpaceChanged(
                [P EXCEPT !.position = [cur |-> Undefined, coords |-> obj.a]]))

\* set value(coordinates) of the Pose's position
Pose_positionSetValue(P, coordinates) ==
    IF P.position.cur = Undefined THEN P
    ELSE IF ~PoseSpaces[P.position.cur].valid
            \/ PoseSpaces[P.position.cur].rank # Len(coordinates)
    THEN P
    ELSE Pose_positionDispatch([P EXCEPT !.position.coords = coordinates])

\* OrientationState.reset() of the Pose's orientation
Pose_orientationReset(P) ==
    Pose_orientationDispatch([P EXCEPT !.orientation = quatIdentity])

\* OrientationState.restoreState(obj) of the Pose's orientation, obj being
\* an array of four finite numbers
Pose_orientationRestoreState(P, obj) ==
    Pose_orientationDispatch([P EXCEPT !.orientation = quatNormalize(obj)])

\* TrackableRenderScaleFactors.update(), which get value() and the listener
\* of coordinateSpace.changed call: a new value object, which the value of
\* the render dimensions does not hold
Pose_renderScaleFactorsUpdate(P) ==
    IF P.rsf.cur = P.cs THEN P
    ELSE Pose_renderScaleFactorsDispatch(
            [P EXCEPT !.rsf = [cur |-> P.cs,
                               factors |-> RemapFactors(P.rsf.factors,
                                                        PoseSpaces[P.rsf.cur],
                                                        PoseSpaces[P.cs])],
                      !.rd.fresh = FALSE])

\* TrackableRenderScaleFactors.setFactors(factors)
Pose_setFactors(P, factors) ==
    IF Len(factors) # PoseSpaces[P.cs].rank THEN P
    ELSE Pose_renderScaleFactorsDispatch(
            [P EXCEPT !.rsf = [cur |-> P.cs, factors |-> factors],
                      !.rd.fresh = FALSE])

\* TrackableRenderDimensions.assignValue(renderScaleFactors, rank,
\* dimensionIndices), renderScaleFactors being the value just read; of the
\* object it stores the model keeps the rank, the indices and the space
Pose_assignValue(P, rank, dimensionIndices) ==
    Pose_renderDimensionsDispatch(
        [P EXCEPT !.rd = [default_ |-> @.default_, defined |-> TRUE, fresh |-> TRUE,
                          space |-> P.rsf.cur, rank |-> rank,
                          dimensionIndices |-> dimensionIndices]])

\* Math.min(coordinateSpace.rank, 3)
DefaultRank(P) ==
    IF PoseSpaces[P.rsf.cur].rank < 3 THEN PoseSpaces[P.rsf.cur].rank ELSE 3

\* TrackableRenderDimensions.setToDefault(renderScaleFactors)
Pose_setToDefault(P) ==
    Pose_assignValue(P, DefaultRank(P),
                     [i \in 1..3 |-> IF i <= DefaultRank(P) THEN i - 1 ELSE -1])

\* The loop of TrackableRenderDimensions.update(): the displayed dimensions
\* still present in the new space, by id
Pose_remappedIndices(P) ==
    SelectSeq([i \in 1..P.rd.rank |->
                  IndexOf(PoseSpaces[P.rsf.cur].dimensionIds,
                          PoseSpaces[P.rd.space].dimensionIds[
                              P.rd.dimensionIndices[i] + 1]) - 1],
              LAMBDA newDim : newDim # -1)

\* update() when dimensions are kept: assignValue and a second dispatch
Pose_assignRemapped(P, kept) ==
    Pose_renderDimensionsDispatch(Pose_assignValue(P, Len(kept), PadIndices(kept)))

\* update() once this.renderScaleFactors.value has been read
Pose_updateDimensions(P) ==
    IF P.rd.defined /\ P.rd.fresh THEN P
    ELSE IF ~P.rd.defined \/ P.rd.default_ THEN Pose_setToDefault(P)
    ELSE IF Pose_remappedIndices(P) = <<>>
    THEN Pose_setToDefault([P EXCEPT !.rd.default_ = TRUE])
    ELSE Pose_assignRemapped(P, Pose_remappedIndices(P))

\* TrackableRenderDimensions.update(), which get value() calls
Pose_renderDimensionsUpdate(P) ==
    Pose_updateDimensions(Pose_renderScaleFactorsUpdate(P))

\* TrackableRenderDimensions.reset()
Pose_renderDimensionsReset(P) ==
    Pose_renderDimensionsDispatch(
        [P EXCEPT !.rd = [default_ |-> TRUE, defined |-> FALSE, fresh |-> FALSE,
                          space |-> Undefined, rank |-> 0,
                          dimensionIndices |-> <<-1, -1, -1>>]])

\* TrackableRenderDimensions.setDimensionIndices(rank, dimensionIndices)
Pose_setDimensionIndices(P, rank, dimensionIndices) ==
    Pose_assignValue(Pose_renderScaleFactorsUpdate([P EXCEPT !.rd.default_ = FALSE]),
                     rank, dimensionIndices)

\* The value of the coordinate space the position and the render scale
\* factors watch becomes cs: both listeners of its changed signal run
Pose_setCoordinateSpace(P, cs) ==
    Pose_renderScaleFactorsUpdate(
        Pose_handleCoordinateSpaceChanged([P EXCEPT !.cs = cs]))

\* Pose.reset()
Pose_reset(P) ==
    Pose_renderDimensionsReset(Pose_orientationReset(Pose_positionReset(P)))

\* snapToVoxel() after its handleCoordinateSpaceChanged()
RoundCoordinates(T) ==
    Pose_positionDispatch(
        [T EXCEPT !.position.coords = [i \in 1..Len(@) |-> FracRound(@[i])]])

\* Mutant: snapToVoxel rounds down.
Pose_snapToVoxel_Floor(P) ==
    Pose_positionDispatch(
        [Pose_handleCoordinateSpaceChanged(P) EXCEPT
            !.position.coords = [i \in 1..Len(@) |-> FracFloor(@[i])]])

\* Position.snapToVoxel() of the Pose's position
Pose_snapToVoxel(P) == RoundCoordinates(Pose_handleCoordinateSpaceChanged(P))

\* OrientationState.snap() of the Pose's orientation
Pose_orientationSnap(P) ==
    Pose_orientationDispatch([P EXCEPT !.orientation = fromMat3(SnapMat(@)).q])

\* Pose.snap()
Pose_snap(P) ==
    [Pose_snapToVoxel(Pose_orientationSnap(P)) EXCEPT !.stats.changed = @ + 1]

\* Mutant: the translation is not clamped.
ClampedCoordinate_Unclamped(old, adjustment, lower, upper) == FracAdd(old, adjustment)

\* The new value of a coordinate old that is translated by adjustment
\* within the bounds lower and upper of its dimension
ClampedCoordinate(old, adjustment, lower, upper) ==
    IF adjustment.n > 0
    THEN IF isFinite(upper)
         THEN FracMin(FracAdd(old, adjustment), FracCeil(FracSub(upper, Num(1))))
         ELSE FracAdd(old, adjustment)
    ELSE IF isFinite(lower)
         THEN FracMax(FracAdd(old, adjustment), FracFloor(lower))
         ELSE FracAdd(old, adjustment)

\* translateDimensionRelative after "const {value: voxelCoordinates} =
\* position"; dimensionIndex counts from 0
TranslateDimension(T, dimensionIndex, adjustment) ==
    Pose_positionDispatch(
        [T EXCEPT !.position.coords[dimensionIndex + 1] =
            ClampedCoordinate(@, adjustment,
                              PoseSpaces[T.cs].lowerBounds[dimensionIndex + 1],
                              PoseSpaces[T.cs].upperBounds[dimensionIndex + 1])])

\* Pose.translateDimensionRelative(dimensionIndex, adjustment)
translateDimensionRelative(P, dimensionIndex, adjustment) ==
    IF ~PoseSpaces[P.cs].valid THEN P
    ELSE TranslateDimension(Pose_handleCoordinateSpaceChanged(P), dimensionIndex, adjustment)

\* The squared length of the stored vector of q (1 for the zero quaternion,
\* whose fromQuat is the identity matrix)
QuatScale(q) ==
    IF q = <<0, 0, 0, 0>> THEN 1
    ELSE q[1] * q[1] + q[2] * q[2] + q[3] * q[3] + q[4] * q[4]

\* The unit quaternion q stands for has components that are multiples of
\* 1/2: the Float32 arithmetic of gl-matrix on it and on multiples of 1/2 is
\* exact.  Of any other orientation the components are rounded, and so is
\* what transformQuat returns, which the model has no numbers for.
Float32Exact(q) == QuatScale(q) \in {1, 4}

\* Component r (from 1) of vec3.transformQuat(out, a, q): row r of the
\* rotation matrix of q applied to a
TransformedComponent(a, q, r) ==
    FracAdd(FracAdd(FracMul(Frac(fromQuat(q)[r], QuatScale(q)), a[1]),
                    FracMul(Frac(fromQuat(q)[3 + r], QuatScale(q)), a[2])),
            FracMul(Frac(fromQuat(q)[6 + r], QuatScale(q)), a[3]))

\* vec3.transformQuat(out, a, q) for a quaternion q that is Float32Exact
transformQuat(a, q) == [r \in 1..3 |-> TransformedComponent(a, q, r)]

\* The position i (from 1) at which dimension dim (from 0) is displayed, 0
\* when it is not displayed
DisplayedAt(rd, dim) ==
    IF \E i \in 1..rd.rank : rd.dimensionIndices[i] = dim
    THEN CHOOSE i \in 1..rd.rank : rd.dimensionIndices[i] = dim
    ELSE 0

\* translateVoxelsRelative's loop and dispatch, temp being the translation
\* transformed and the position and the render dimensions read
TranslateVoxels(T, temp) ==
    Pose_positionDispatch(
        [T EXCEPT !.position.coords =
            [k \in 1..Len(@) |->
                IF DisplayedAt(T.rd, k - 1) = 0 THEN @[k]
                ELSE ClampedCoordinate(@[k], temp[DisplayedAt(T.rd, k - 1)],
                                       PoseSpaces[T.cs].lowerBounds[k],
                                       PoseSpaces[T.cs].upperBounds[k])]])

\* Pose.translateVoxelsRelative(translation).  On an orientation whose
\* components Float32 rounds, transformQuat returns rounded numbers: the
\* result is marked rounded and no state is made of it.
translateVoxelsRelative(P, translation) ==
    IF ~PoseSpaces[P.cs].valid THEN P
    ELSE IF ~Float32Exact(P.orientation) THEN [P EXCEPT !.rounded = TRUE]
    ELSE TranslateVoxels(
            Pose_renderDimensionsUpdate(Pose_handleCoordinateSpaceChanged(P)),
            transformQuat(translation, P.orientation))

\* updateSpatialPosition3d once the position and the render dimensions are
\* read: fun adds the vector fun.v to the displayed coordinates it is
\* handed, or returns false
UpdateSpatialPosition(T, fun) ==
    IF fun.refuses THEN T
    ELSE Pose_positionDispatch(
            [T EXCEPT !.position.coords =
                [k \in 1..Len(@) |->
                    IF DisplayedAt(T.rd, k - 1) = 0 THEN @[k]
                    ELSE FracAdd(@[k], fun.v[DisplayedAt(T.rd, k - 1)])]])

\* Pose.updateSpatialPosition3d(fun)
updateSpatialPosition3d(P, fun) ==
    UpdateSpatialPosition(
        Pose_renderDimensionsUpdate(Pose_handleCoordinateSpaceChanged(P)), fun)

\* rotateAbsolute's first loop: fixedPointLocal, 0 past rank
FixedPointLocal(T, fixedPoint) ==
    [i \in 1..3 |->
        IF i > T.rd.rank THEN Num(0)
        ELSE FracMul(FracSub(fixedPoint[T.rd.dimensionIndices[i] + 1],
                             T.position.coords[T.rd.dimensionIndices[i] + 1]),
                     Num(PoseSpaces[T.cs].scales[T.rd.dimensionIndices[i] + 1]
                            * T.rsf.factors[T.rd.dimensionIndices[i] + 1]))]

\* Mutant: the last loop divides by the factor of the dimension.
MovedCoordinate_ByDimension(T, fixedPoint, local, k) ==
    IF DisplayedAt(T.rd, k - 1) = 0 THEN T.position.coords[k]
    ELSE FracSub(fixedPoint[k],
                 FracDiv(local[DisplayedAt(T.rd, k - 1)],
                         Num(PoseSpaces[T.cs].scales[k] * T.rsf.factors[k])))

\* rotateAbsolute's last loop for the coordinate k (from 1): the code
\* divides by scales[dim] * renderScaleFactors[i]
MovedCoordinate(T, fixedPoint, local, k) ==
    IF DisplayedAt(T.rd, k - 1) = 0 THEN T.position.coords[k]
    ELSE FracSub(fixedPoint[k],
                 FracDiv(local[DisplayedAt(T.rd, k - 1)],
                         Num(PoseSpaces[T.cs].scales[k]
                                * T.rsf.factors[DisplayedAt(T.rd, k - 1)])))

\* rotateAbsolute from quat.multiply on: local is fixedPointLocal after
\* the transformQuat by the inverse of the old orientation
RotateAbout(T, temp, fixedPoint, local) ==
    Pose_orientationDispatch(Pose_positionDispatch(
        [T EXCEPT !.orientation = quatMultiply(temp, T.orientation),
                  !.position.coords =
                      [k \in 1..Len(@) |->
                          MovedCoordinate(T, fixedPoint,
                              transformQuat(local, quatMultiply(temp, T.orientation)),
                              k)]]))

\* rotateAbsolute once the position and the render dimensions are read
RotateRead(T, temp, fixedPoint) ==
    RotateAbout(T, temp, fixedPoint,
                transformQuat(FixedPointLocal(T, fixedPoint), quatInvert(T.orientation)))

\* Pose.rotateAbsolute(axis, angle, fixedPoint), temp being
\* quat.setAxisAngle(temp, axis, angle).  A rotation that Float32 rounds is
\* marked rounded and no state is made of it.
rotateAbsolute(P, temp, fixedPoint) ==
    IF ~(Float32Exact(P.orientation) /\ Float32Exact(temp))
    THEN [P EXCEPT !.rounded = TRUE]
    ELSE RotateRead(Pose_renderDimensionsUpdate(Pose_handleCoordinateSpaceChanged(P)),
                    temp, fixedPoint)

\* Pose.rotateRelative(axis, angle), temp being
\* quat.setAxisAngle(temp, axis, angle): the orientation is multiplied by
\* temp on the right, which changes no component when temp is the identity
\* and rounds nothing when both are Float32Exact.
rotateRelative(P, temp) ==
    IF temp = quatIdentity THEN Pose_orientationDispatch(P)
    ELSE IF ~(Float32Exact(P.orientation) /\ Float32Exact(temp))
    THEN [P EXCEPT !.rounded = TRUE]
    ELSE Pose_orientationDispatch([P EXCEPT !.orientation = quatMultiply(@, temp)])

\* Pose.getSpatialPosition3d(out), and Pose.toMat4(mat, zoom): both read
\* position.value, then renderDimensions.value
getSpatialPosition3d(P) ==
    Pose_renderDimensionsUpdate(Pose_handleCoordinateSpaceChanged(P))

\* Pose.toMat3(mat, zoom): of the Pose's parts it reads
\* renderDimensions.value
toMat3(P) == Pose_renderDimensionsUpdate(P)

\* The dimensions (from 0) of the coordinate space that are not among the
\* three entries of dimensionIndices, in ascending order
NonSpatialDimensions(T) ==
    SelectSeq([i \in 1..PoseSpaces[T.cs].rank |-> i - 1],
              LAMBDA dim : \A k \in 1..3 : T.rd.dimensionIndices[k] # dim)

\* The loop of translateNonSpatialDimension
TranslateNonSpatial(T, nonSpatialDimensionIndex, adjustment) ==
    IF nonSpatialDimensionIndex + 1 \notin 1..Len(NonSpatialDimensions(T)) THEN T
    ELSE translateDimensionRelative(
            T, NonSpatialDimensions(T)[nonSpatialDimensionIndex + 1], adjustment)

\* Pose.translateNonSpatialDimension(nonSpatialDimensionIndex, adjustment)
translateNonSpatialDimension(P, nonSpatialDimensionIndex, adjustment) ==
    IF ~PoseSpaces[P.cs].valid THEN P
    ELSE TranslateNonSpatial(Pose_renderDimensionsUpdate(P),
                             nonSpatialDimensionIndex, adjustment)

\* new Pose(position, renderDimensions, orientation) over the coordinate
\* space cs, every part newly constructed: the constructors of the render
\* scale factors and of the render dimensions call their update()
NewPose(cs) ==
    [Pose_renderDimensionsUpdate(
        [cs |-> cs, position |-> [cur |-> Undefined, coords |-> <<>>],
         orientation |-> quatIdentity, rounded |-> FALSE,
         rsf |-> [cur |-> "empty", factors |-> <<>>],
         rd |-> [default_ |-> TRUE, defined |-> FALSE, fresh |-> FALSE,
                 space |-> Undefined, rank |-> 0,
                 dimensionIndices |-> <<-1, -1, -1>>],
         stats |-> NoPoseStats])
     EXCEPT !.stats = NoPoseStats]

\* Arguments of an operation that takes none of a kind
NoPoseArgs ==
    [dimensionIndex |-> -1, adjustment |-> <<>>, temp |-> quatIdentity]

\* The Pose of a state in which it is not under study.
PoseIdle ==
    /\ pose = NewPose("empty")
    /\ poseOp = [op |-> "new", args |-> NoPoseArgs, stats |-> NoPoseStats]

\* The pair of a state in which it is not under study.
ZoomPairIdle ==
    /\ zoomPair = [LinkedZoomState(emptyCoordinateSpace, LINKED)
                      EXCEPT !.stats = NoZoomPairStats]
    /\ zoomPairOp = [op |-> "makeLinked", who |-> "self"] @@ NoZoomPairStats

\* The state an operation leaves, its counts put back to zero.
Settled(D) ==
    [D EXCEPT !.stats.rdDispatches = 0, !.stats.zoomDispatches = 0,
              !.stats.threw = FALSE, !.stats.defaulted = FALSE]

\* The display state of a state in which it is not under study.
DisplayIdle ==
    /\ display = Settled(NewDisplay(emptyCoordinateSpace))
    /\ displayOp = [op |-> "new"] @@ NewDisplay(emptyCoordinateSpace).stats

-----------------------------------------------------------------------------
(* The state machine of one LinkedPosition *)

Current ==
    Cascade(coordinateSpace, self, peer, link, selfMinusPeer, previousLinkValue,
            updatingSelf, updatingPeer)

\* The state after an external operation op returned cascade S.
Commit(S, op, who) ==
    /\ ~S.outside
    /\ InRange(S.self.coords) /\ InRange(S.peer.coords) /\ InRange(S.d.v)
    /\ coordinateSpace' = S.cs
    /\ self' = S.self
    /\ peer' = S.peer
    /\ link' = S.link
    /\ selfMinusPeer' = S.d
    /\ previousLinkValue' = S.prev
    /\ updatingSelf' = S.updatingSelf
    /\ updatingPeer' = S.updatingPeer
    /\ lastOp' = [op |-> op, who |-> who, from |-> link]
    /\ stats' = S.stats
    /\ UNCHANGED <<orientationVars, renderScaleVars, displayVars, zoomPairVars, poseVars>>

Init ==
    \E cs \in SpaceNames, l \in NavigationLinkType :
        \E S \in {makeLinked(cs, NewPosition, NewPosition, l)} :
            /\ coordinateSpace = S.cs
            /\ self = S.self
            /\ peer = S.peer
            /\ link = S.link
            /\ selfMinusPeer = S.d
            /\ previousLinkValue = S.prev
            /\ updatingSelf = S.updatingSelf
            /\ updatingPeer = S.updatingPeer
            /\ lastOp = [op |-> "makeLinked", who |-> "self", from |-> UNLINKED]
            /\ stats = S.stats
            /\ OrientationIdle
            /\ RenderScaleFactorsIdle
            /\ DisplayIdle
            /\ ZoomPairIdle
            /\ PoseIdle

Sides == {"self", "peer"}

\* who.value = v
DoSetValue ==
    \E who \in Sides, v \in InputVecs :
        Commit(SetValue(Current, who, Stored(v)), "setValue", who)

\* who.markSpatialCoordinatesChanged()
DoMarkSpatialCoordinatesChanged ==
    \E who \in Sides :
        Commit(markSpatialCoordinatesChanged(Current, who),
               "markSpatialCoordinatesChanged", who)

\* Spatial offsets a caller passes to Position.addOffset, multiplied by
\* 1e-9 and in half voxels.
SpatialOffsets == {<<2>>, <<2, -2>>}

\* Position.addOffset(target, source, {spatialOffset}, scale), source being
\* the other Position of the pair.  The call reads source.value and assigns
\* target.value: an operation on the pair, not on one side.
DoAddSpatialOffset ==
    \E target \in Sides, v \in SpatialOffsets, scale \in {1, -1} :
        Commit(addOffset(Current, target,
                         IF target = "self" THEN "peer" ELSE "self",
                         [kind |-> "spatialOffset", v |-> v], scale),
               "addOffset", "pair")

\* who.reset()
DoReset == \E who \in Sides : Commit(reset(Current, who), "reset", who)

\* JSON values handed to Position.restoreState: undefined or an array of
\* finite numbers
JsonInputs ==
    {[t |-> "undefined", a |-> <<>>]} \cup {[t |-> "array", a |-> Stored(v)] : v \in InputVecs}

\* who.restoreState(obj)
DoRestoreState ==
    \E who \in Sides, obj \in JsonInputs :
        Commit(restoreState(Current, who, obj), "restoreState", who)

\* who.snapToVoxel()
DoSnapToVoxel == \E who \in Sides : Commit(snapToVoxel(Current, who), "snapToVoxel", who)

\* who.assign(other), other a synchronized Position outside the pair
DoAssign ==
    \E who \in Sides, v \in InputVecs :
        /\ valid(Current) => Len(v) = Spaces[coordinateSpace].rank
        /\ Commit(AssignFrom(Current, who, [cur |-> coordinateSpace, coords |-> Stored(v)]),
                  "assign", who)

\* a read of who.value
DoGetValue == \E who \in Sides : Commit(GetValue(Current, who), "getValue", who)

\* coordinateSpace.value = cs: the watchable dispatches its changed signal;
\* peer's listener was added first (peer is constructed before self).
DoSetCoordinateSpace ==
    \E cs \in SpaceNames :
        /\ cs # coordinateSpace
        /\ LET S1 == [Current EXCEPT !.cs = cs]
               S2 == handleCoordinateSpaceChanged(S1, "peer")
               S3 == handleCoordinateSpaceChanged(S2, "self")
           IN  Commit(S3, "setCoordinateSpace", "space")

\* link.value = l followed by link.changed.dispatch(); l may be the current value
DoLinkUpdate ==
    \E l \in NavigationLinkType :
        Commit(handleLinkUpdate([Current EXCEPT !.link = l]), "link", "link")

Next ==
    \/ DoSetValue
    \/ DoMarkSpatialCoordinatesChanged
    \/ DoAddSpatialOffset
    \/ DoReset
    \/ DoRestoreState
    \/ DoSnapToVoxel
    \/ DoAssign
    \/ DoGetValue
    \/ DoSetCoordinateSpace
    \/ DoLinkUpdate

Spec == Init /\ [][Next]_vars

-----------------------------------------------------------------------------
(* The state machine of one OrientationState pair built by makeRelative *)

\* The LinkedPosition pair of a state in which it is not under study.
PositionIdle ==
    /\ coordinateSpace = "empty"
    /\ self = NewPosition /\ peer = NewPosition
    /\ link = LINKED /\ selfMinusPeer = NoOffset /\ previousLinkValue = LINKED
    /\ updatingSelf = FALSE /\ updatingPeer = FALSE
    /\ lastOp = [op |-> "makeLinked", who |-> "self", from |-> UNLINKED]
    /\ stats = NoStats

\* Fixed rotations peerToSelf of the pairs studied.
RelativeRotations == {<<0, 0, 0, 1>>, <<1, 0, 0, 1>>, <<1, 1, 1, 1>>, <<0, 1, 1, 0>>}

InitOrientation ==
    /\ PositionIdle
    /\ RenderScaleFactorsIdle
    /\ DisplayIdle
    /\ ZoomPairIdle
    /\ PoseIdle
    /\ \E p \in QuatInputs, r \in RelativeRotations : orient = makeRelative(p, r)
    /\ orientOp = [op |-> "makeRelative", who |-> "self"]

\* The state after an operation op on who returned the pair O.
CommitOrientation(O, op, who) ==
    /\ orient' = [O EXCEPT !.stats = NoOrientStats]
    /\ orientOp' = [op |-> op, who |-> who, moved |-> O[who] # orient[who]] @@ O.stats
    /\ UNCHANGED <<positionVars, renderScaleVars, displayVars, zoomPairVars, poseVars>>

\* The pair as an operation finds it.
CurrentOrientation == [orient EXCEPT !.stats = NoOrientStats]

DoOrientationRestoreState ==
    \E who \in Sides, obj \in OrientationJsonInputs :
        CommitOrientation(Orientation_restoreState(CurrentOrientation, who, obj),
                          "restoreState", who)

DoOrientationRestoreMalformed ==
    \E who \in Sides, obj \in MalformedOrientationJson :
        CommitOrientation(Orientation_restoreState(CurrentOrientation, who, obj),
                          "restoreMalformed", who)

DoOrientationReset ==
    \E who \in Sides :
        CommitOrientation(Orientation_reset(CurrentOrientation, who), "reset", who)

DoOrientationSnap ==
    \E who \in Sides :
        CommitOrientation(Orientation_snap(CurrentOrientation, who), "snap", who)

DoOrientationAssign ==
    \E who \in Sides, q \in QuatInputs :
        CommitOrientation(Orientation_assign(CurrentOrientation, who, q), "assign", who)

NextOrientation ==
    \/ DoOrientationRestoreState
    \/ DoOrientationRestoreMalformed
    \/ DoOrientationReset
    \/ DoOrientationSnap
    \/ DoOrientationAssign

SpecOrientation == InitOrientation /\ [][NextOrientation]_vars

-----------------------------------------------------------------------------
(* The state machine of one LinkedRenderScaleFactors *)

InitRenderScaleFactors ==
    /\ PositionIdle
    /\ OrientationIdle
    /\ DisplayIdle
    /\ ZoomPairIdle
    /\ PoseIdle
    /\ \E cs \in FactorSpaceNames, l \in NavigationLinkType :
          \E F \in {LinkedRenderScaleFactors(cs, NewTrackableRenderScaleFactors(cs), l)} :
              scaleFactors = [F EXCEPT !.stats = NoFactorStats]
    /\ scaleOp = [op |-> "makeLinked", who |-> "self"] @@ NoFactorStats

\* The state after an operation op on who returned the pair F.
CommitFactors(F, op, who) ==
    /\ ~F.stats.overflow
    /\ InFactorRange(F.self.factors) /\ InFactorRange(F.peer.factors)
    /\ InFactorRange(F.d.offsets)
    /\ scaleFactors' = [F EXCEPT !.stats = NoFactorStats]
    /\ scaleOp' = [op |-> op, who |-> who] @@ F.stats
    /\ UNCHANGED <<positionVars, orientationVars, displayVars, zoomPairVars, poseVars>>

DoFactorsReset ==
    \E who \in Sides : CommitFactors(Factors_reset(scaleFactors, who), "reset", who)

DoFactorsRestoreState ==
    \E who \in Sides, json \in FactorJsonInputs :
        CommitFactors(Factors_restoreState(scaleFactors, who, json), "restoreState", who)

DoFactorsSetFactors ==
    \E who \in Sides, factors \in FactorInputs :
        CommitFactors(Factors_setFactors(scaleFactors, who, factors), "setFactors", who)

DoFactorsAssign ==
    \E who \in Sides :
        CommitFactors(Factors_assign(scaleFactors, who, Other(who)), "assign", who)

DoFactorsGetValue ==
    \E who \in Sides : CommitFactors(Factors_update(scaleFactors, who), "getValue", who)

\* toJSON() of the LinkedRenderScaleFactors whose value is self
DoLinkedFactorsToJSON ==
    CommitFactors(LinkedFactors_toJSON(scaleFactors).F, "toJSON", "self")

DoFactorsSetCoordinateSpace ==
    \E cs \in FactorSpaceNames \ {scaleFactors.cs} :
        CommitFactors(Factors_setCoordinateSpace(scaleFactors, cs),
                      "setCoordinateSpace", "peer")

DoFactorsLinkUpdate ==
    \E l \in NavigationLinkType \ {scaleFactors.link} :
        CommitFactors(Factors_handleLinkUpdate([scaleFactors EXCEPT !.link = l]),
                      "link", "self")

NextRenderScaleFactors ==
    \/ DoFactorsReset
    \/ DoFactorsRestoreState
    \/ DoFactorsSetFactors
    \/ DoFactorsAssign
    \/ DoFactorsGetValue
    \/ DoLinkedFactorsToJSON
    \/ DoFactorsSetCoordinateSpace
    \/ DoFactorsLinkUpdate

SpecRenderScaleFactors == InitRenderScaleFactors /\ [][NextRenderScaleFactors]_vars

-----------------------------------------------------------------------------
(* The state machine of a TrackableCrossSectionZoom, its                   *)
(* TrackableRenderDimensions and their TrackableRenderScaleFactors         *)

DisplaySpaceNames == DOMAIN DisplaySpaces

InitDisplay ==
    /\ PositionIdle
    /\ OrientationIdle
    /\ RenderScaleFactorsIdle
    /\ ZoomPairIdle
    /\ PoseIdle
    /\ \E cs \in DisplaySpaceNames :
          /\ display = Settled(NewDisplay(cs))
          /\ displayOp = [op |-> "new"] @@ NewDisplay(cs).stats

\* The state after an operation op returned D.
CommitDisplay(D, op) ==
    /\ ~D.stats.overflow
    /\ Abs(D.zoom.value_.n) <= (IF D.projection THEN MaxProjectionZoom ELSE MaxZoom)
    /\ D.zoom.value_.d <= MaxZoom
    /\ display' = Settled(D)
    /\ displayOp' = [op |-> op] @@ D.stats
    /\ UNCHANGED <<positionVars, orientationVars, renderScaleVars, zoomPairVars, poseVars>>

DoDisplaySetCoordinateSpace ==
    \E cs \in DisplaySpaceNames \ {display.cs} :
        CommitDisplay(Display_setCoordinateSpace(display, cs), "setCoordinateSpace")

DoDisplaySetFactors ==
    \E factors \in DisplayFactorInputs(DisplaySpaces[display.cs].rank) :
        CommitDisplay(Display_setFactors(display, factors), "setFactors")

DoDisplayRestoreFactors ==
    \E json \in DisplayFactorJsonInputs :
        CommitDisplay(Display_restoreFactors(display, json), "restoreFactors")

DoDimensionsGetValue ==
    CommitDisplay(Dimensions_update(display), "getDimensions")

DoDimensionsReset ==
    CommitDisplay(Dimensions_reset(display), "resetDimensions")

DoDimensionsRestoreState ==
    \E obj \in DimensionJsonInputs :
        CommitDisplay(Dimensions_restoreState(display, obj), "restoreDimensions")

DoDimensionsSetDefault ==
    \E value \in BOOLEAN :
        CommitDisplay(Dimensions_setDefault(display, value), "setDefault")

DoSetDimensionIndices ==
    \E in \in DimensionIndexInputs(DisplaySpaces[display.cs].rank) :
        CommitDisplay(setDimensionIndices(display, in.rank, in.dimensionIndices),
                      "setDimensionIndices")

DoDimensionsAssign ==
    \E other \in {[default |-> TRUE, rank |-> 0, dimensionIndices |-> <<-1, -1, -1>>]}
                 \cup {[default |-> FALSE] @@ in :
                          in \in DimensionIndexInputs(DisplaySpaces[display.cs].rank)} :
        CommitDisplay(Dimensions_assign(display, other), "assignDimensions")

DoZoomGetValue ==
    CommitDisplay(Zoom_handleCoordinateSpaceChanged(display), "getZoom")

DoZoomSetValue ==
    \E value \in ZoomInputs :
        CommitDisplay(Zoom_setValue(display, value), "setZoom")

DoZoomSetLegacyValue ==
    \E value \in LegacyZoomInputs :
        CommitDisplay(Zoom_setLegacyValue(display, value), "setLegacyZoom")

DoZoomRestoreState ==
    \E obj \in ZoomJsonInputs :
        CommitDisplay(Zoom_restoreState(display, obj), "restoreZoom")

DoZoomReset == CommitDisplay(Zoom_reset(display), "resetZoom")

\* Operations on the render dimensions, their rsf and the coordinate space.
NextDimensions ==
    \/ DoDisplaySetCoordinateSpace
    \/ DoDisplaySetFactors
    \/ DoDisplayRestoreFactors
    \/ DoDimensionsGetValue
    \/ DoDimensionsReset
    \/ DoDimensionsRestoreState
    \/ DoDimensionsSetDefault
    \/ DoSetDimensionIndices
    \/ DoDimensionsAssign

SpecDimensions == InitDisplay /\ [][NextDimensions]_vars

\* Operations on the zoom, the rsf and the coordinate space.
NextZoom ==
    \/ DoDisplaySetCoordinateSpace
    \/ DoDisplaySetFactors
    \/ DoDisplayRestoreFactors
    \/ DoZoomGetValue
    \/ DoZoomSetValue
    \/ DoZoomSetLegacyValue
    \/ DoZoomRestoreState
    \/ DoZoomReset

SpecZoom == InitDisplay /\ [][NextZoom]_vars

\* A TrackableProjectionZoom in place of the cross-section zoom.
InitProjection ==
    /\ PositionIdle
    /\ OrientationIdle
    /\ RenderScaleFactorsIdle
    /\ ZoomPairIdle
    /\ PoseIdle
    /\ \E cs \in DisplaySpaceNames :
          /\ display = Settled(NewProjectionDisplay(cs))
          /\ displayOp = [op |-> "new"] @@ NewProjectionDisplay(cs).stats

\* Operations on a projection zoom, its render dimensions, their rsf and the
\* coordinate space.
NextProjection ==
    \/ DoDisplaySetCoordinateSpace
    \/ DoDisplaySetFactors
    \/ DoSetDimensionIndices
    \/ DoDimensionsSetDefault
    \/ DoZoomGetValue
    \/ DoZoomSetValue
    \/ DoZoomSetLegacyValue
    \/ DoZoomReset

SpecProjection == InitProjection /\ [][NextProjection]_vars

-----------------------------------------------------------------------------
(* The five entities and their JSON forms.  The entities are separate      *)
(* objects that share no state, so each is exercised while the others      *)
(* stay as constructed: the reachable states are those of each entity's    *)
(* own operations.                                                         *)

InitJson ==
    \/ Init
    \/ InitOrientation
    \/ InitRenderScaleFactors
    \/ InitDisplay
    \/ InitProjection

\* reset, restoreState, value reads and writes, and coordinate-space
\* replacements of each entity.
NextJson ==
    \/ /\ OrientationIdle /\ RenderScaleFactorsIdle /\ DisplayIdle
       /\ \/ DoReset
          \/ DoRestoreState
          \/ DoSetValue
          \/ DoGetValue
          \/ DoSetCoordinateSpace
    \/ /\ PositionIdle /\ RenderScaleFactorsIdle /\ DisplayIdle
       /\ \/ DoOrientationReset
          \/ DoOrientationRestoreState
          \/ DoOrientationAssign
    \/ /\ PositionIdle /\ OrientationIdle /\ DisplayIdle
       /\ \/ DoFactorsReset
          \/ DoFactorsRestoreState
          \/ DoFactorsSetFactors
          \/ DoFactorsSetCoordinateSpace
    \/ /\ PositionIdle /\ OrientationIdle /\ RenderScaleFactorsIdle
       /\ \/ DoDisplaySetCoordinateSpace
          \/ DoDisplaySetFactors
          \/ DoDimensionsReset
          \/ DoDimensionsRestoreState
          \/ DoZoomReset
          \/ DoZoomRestoreState
          \/ DoZoomSetValue
          \/ DoZoomGetValue

SpecJson == InitJson /\ [][NextJson]_vars

-----------------------------------------------------------------------------
(* The linked pairs: a LinkedPosition built by makeLinked or an            *)
(* OrientationState pair built by makeRelative, under every operation.     *)

InitLinked ==
    \/ Init
    \/ InitOrientation

NextLinked ==
    \/ OrientationIdle /\ Next
    \/ /\ PositionIdle
       /\ \/ DoOrientationRestoreState
          \/ DoOrientationReset
          \/ DoOrientationSnap

SpecLinked == InitLinked /\ [][NextLinked]_vars

-----------------------------------------------------------------------------
(* A LinkedPosition under the operations of its Positions and of the        *)
(* wrapper: copyToPeer and restoreState                                     *)

\* JSON values handed to the wrapper's restoreState: undefined, {}, and
\* objects with a link mode and with or without a value.
LinkedJsonInputs ==
    {UndefinedLinkJson(UndefinedJson), EmptyLinkJson(UndefinedJson)}
    \cup {[t |-> "object", link |-> l, value |-> v] :
             l \in NavigationLinkType, v \in JsonInputs}

\* wrapper.copyToPeer()
DoCopyToPeer == Commit(copyToPeer(Current), "copyToPeer", "wrapper")

\* wrapper.restoreState(json)
DoRestoreLinked ==
    \E json \in LinkedJsonInputs :
        Commit(restoreLinkedFromJson(Current, json),
               IF json.t # "object" THEN "restoreLinkedAbsent"
               ELSE IF json.value.t = "undefined" THEN "restoreLinkedNoValue"
               ELSE "restoreLinked",
               "wrapper")

NextWrapper ==
    \/ Next
    \/ DoCopyToPeer
    \/ DoRestoreLinked

SpecWrapper == Init /\ [][NextWrapper]_vars

-----------------------------------------------------------------------------
(* The linked Positions over coordinate spaces that include two valid       *)
(* spaces of the same rank                                                  *)

\* coordinateSpace.value = cs, cs any of the spaces
DoSetAnyCoordinateSpace ==
    \E cs \in AllSpaceNames \ {coordinateSpace} :
        Commit(handleCoordinateSpaceChanged(
                   handleCoordinateSpaceChanged([Current EXCEPT !.cs = cs], "peer"),
                   "self"),
               "setCoordinateSpace", "space")

NextSpaces ==
    \/ DoSetAnyCoordinateSpace
    \/ DoSetValue
    \/ DoReset
    \/ DoGetValue
    \/ DoLinkUpdate

SpecSpaces == Init /\ [][NextSpaces]_vars

-----------------------------------------------------------------------------
(* The state machine of one Pose *)

\* The dimensions a caller of setDimensionIndices asks to display: the rank
\* and the 0-based indices.
PoseDisplays(cs) ==
    IF PoseSpaces[cs].rank = 0 THEN {[rank |-> 0, dimensionIndices |-> <<-1, -1, -1>>]}
    ELSE IF PoseSpaces[cs].rank = 1 THEN {[rank |-> 1, dimensionIndices |-> <<0, -1, -1>>]}
    ELSE {[rank |-> 2, dimensionIndices |-> <<0, 1, -1>>],
          [rank |-> 2, dimensionIndices |-> <<1, 0, -1>>],
          [rank |-> 1, dimensionIndices |-> <<1, -1, -1>>]}

\* The factors a caller passes to setFactors: one array of the rank of the
\* space and the array <<1, 2>>.
PoseFactorInputs(cs) == {[i \in 1..PoseSpaces[cs].rank |-> 1], <<1, 2>>}

\* Adjustments a caller passes to translateDimensionRelative.
PoseAdjustments == {Frac(-3, 2), Num(0), Frac(1, 2)}

\* Translations a caller passes to translateVoxelsRelative.
PoseTranslations ==
    {<<Num(1), Num(0), Num(0)>>, <<Num(-1), Num(1), Num(0)>>, <<Num(0), Frac(-3, 2), Num(0)>>}

\* quat.setAxisAngle(temp, axis, angle) for the rotations a caller asks
\* for: any axis by 0, and the axis (1, 1, 1) / sqrt(3) by a third of a
\* turn, whose quaternion is (0.5, 0.5, 0.5, 0.5).
PoseRotations == {quatIdentity, <<1, 1, 1, 1>>}

\* What a caller passes to translateNonSpatialDimension.
PoseNonSpatialTranslations ==
    {[nonSpatialDimensionIndex |-> 0, adjustment |-> Frac(1, 2)],
     [nonSpatialDimensionIndex |-> 0, adjustment |-> Frac(-3, 2)],
     [nonSpatialDimensionIndex |-> 1, adjustment |-> Frac(1, 2)]}

\* Fixed points a caller passes to rotateAbsolute.
PoseFixedPoints(cs) ==
    IF PoseSpaces[cs].rank = 0 THEN {<<>>}
    ELSE IF PoseSpaces[cs].rank = 1 THEN {<<Num(1)>>}
    ELSE {<<Num(0), Num(0)>>, <<Num(1), Num(1)>>}

\* What a caller passes to restoreState of the position.
PosePositionJsons ==
    {UndefinedJson, [t |-> "array", a |-> <<Num(1), Num(1)>>], [t |-> "array", a |-> <<Num(1)>>]}

\* What a caller assigns to the value of the position.
PosePositionValues == {<<Num(1), Num(-1)>>, <<Num(0)>>}

\* The functions a caller passes to updateSpatialPosition3d: one returns
\* false, one adds (1, -0.5, 0).
PoseUpdateFunctions ==
    {[refuses |-> TRUE, v |-> <<Num(0), Num(0), Num(0)>>],
     [refuses |-> FALSE, v |-> <<Num(1), Frac(-1, 2), Num(0)>>]}

InitPose ==
    /\ PositionIdle
    /\ OrientationIdle
    /\ RenderScaleFactorsIdle
    /\ DisplayIdle
    /\ ZoomPairIdle
    /\ \E cs \in PoseSpaceNames : pose = NewPose(cs)
    /\ poseOp = [op |-> "new", args |-> NoPoseArgs, stats |-> NoPoseStats]

InPoseRange(coords) ==
    \A i \in 1..Len(coords) :
        /\ coords[i].d \in {1, 2}
        /\ Abs(coords[i].n) <= MaxPoseCoord * coords[i].d

\* The state after an operation op with the arguments args returned P.
CommitPose(P, op, args) ==
    /\ ~P.rounded
    /\ InPoseRange(P.position.coords)
    /\ pose' = [P EXCEPT !.stats = NoPoseStats]
    /\ poseOp' = [op |-> op, args |-> args, stats |-> P.stats]
    /\ UNCHANGED <<positionVars, orientationVars, renderScaleVars, displayVars,
                   zoomPairVars>>

DoPoseSnap == CommitPose(Pose_snap(pose), "snap", NoPoseArgs)

DoPoseTranslateDimension ==
    \E dimensionIndex \in {0} \cup 0..(PoseSpaces[pose.cs].rank - 1),
       adjustment \in PoseAdjustments :
        CommitPose(translateDimensionRelative(pose, dimensionIndex, adjustment),
                   "translateDimensionRelative",
                   [NoPoseArgs EXCEPT !.dimensionIndex = dimensionIndex,
                                      !.adjustment = <<adjustment>>])

DoPoseTranslateVoxels ==
    \E translation \in PoseTranslations :
        CommitPose(translateVoxelsRelative(pose, translation),
                   "translateVoxelsRelative",
                   [NoPoseArgs EXCEPT !.adjustment = translation])

DoPoseRotateAbsolute ==
    \E temp \in PoseRotations, fixedPoint \in PoseFixedPoints(pose.cs) :
        CommitPose(rotateAbsolute(pose, temp, fixedPoint), "rotateAbsolute",
                   [NoPoseArgs EXCEPT !.temp = temp])

\* pose.translateNonSpatialDimension(nonSpatialDimensionIndex, adjustment)
DoPoseTranslateNonSpatialDimension ==
    \E call \in PoseNonSpatialTranslations :
        CommitPose(translateNonSpatialDimension(pose, call.nonSpatialDimensionIndex,
                                                call.adjustment),
                   "translateNonSpatialDimension", NoPoseArgs)

\* pose.rotateRelative(axis, angle)
DoPoseRotateRelative ==
    \E temp \in PoseRotations :
        CommitPose(rotateRelative(pose, temp), "rotateRelative", NoPoseArgs)

\* pose.getSpatialPosition3d(), pose.toMat4(mat, zoom)
DoPoseGetSpatialPosition ==
    CommitPose(getSpatialPosition3d(pose), "getSpatialPosition3d", NoPoseArgs)

\* pose.toMat3(mat, zoom), or a read of pose.renderDimensions.value
DoPoseToMat3 == CommitPose(toMat3(pose), "toMat3", NoPoseArgs)

\* A read of pose.position.value
DoPosePositionGetValue ==
    CommitPose(Pose_handleCoordinateSpaceChanged(pose), "get position.value",
               NoPoseArgs)

\* pose.position.snapToVoxel()
DoPosePositionSnapToVoxel ==
    CommitPose(Pose_snapToVoxel(pose), "position.snapToVoxel", NoPoseArgs)

\* pose.position.markSpatialCoordinatesChanged()
DoPoseMarkSpatialCoordinatesChanged ==
    CommitPose(Pose_positionDispatch(pose), "markSpatialCoordinatesChanged",
               NoPoseArgs)

\* pose.orientation.snap()
DoPoseOrientationSnap ==
    CommitPose(Pose_orientationSnap(pose), "orientation.snap", NoPoseArgs)

\* pose.renderDimensions.reset()
DoPoseRenderDimensionsReset ==
    CommitPose(Pose_renderDimensionsReset(pose), "renderDimensions.reset",
               NoPoseArgs)

\* pose.updateSpatialPosition3d(fun)
DoPoseUpdateSpatialPosition ==
    \E fun \in PoseUpdateFunctions :
        CommitPose(updateSpatialPosition3d(pose, fun), "updateSpatialPosition3d",
                   NoPoseArgs)

\* pose.reset()
DoPoseReset == CommitPose(Pose_reset(pose), "reset", NoPoseArgs)

\* pose.position.reset()
DoPosePositionReset ==
    CommitPose(Pose_positionReset(pose), "position.reset", NoPoseArgs)

\* pose.position.restoreState(obj)
DoPosePositionRestoreState ==
    \E obj \in PosePositionJsons :
        CommitPose(Pose_positionRestoreState(pose, obj), "position.restoreState",
                   NoPoseArgs)

\* pose.position.value = coordinates
DoPosePositionSetValue ==
    \E coordinates \in PosePositionValues :
        CommitPose(Pose_positionSetValue(pose, coordinates), "position.value",
                   NoPoseArgs)

\* pose.orientation.reset()
DoPoseOrientationReset ==
    CommitPose(Pose_orientationReset(pose), "orientation.reset", NoPoseArgs)

\* pose.orientation.restoreState([0, 0, 1, 2]): a rotation about z that is
\* not a multiple of a quarter turn
DoPoseOrientationRestore ==
    CommitPose(Pose_orientationRestoreState(pose, <<0, 0, 1, 2>>),
               "orientation.restoreState", NoPoseArgs)

\* pose.renderDimensions.setDimensionIndices(rank, dimensionIndices)
DoPoseSetDimensionIndices ==
    \E d \in PoseDisplays(pose.cs) :
        CommitPose(Pose_setDimensionIndices(pose, d.rank, d.dimensionIndices),
                   "setDimensionIndices", NoPoseArgs)

\* pose.renderDimensions.renderScaleFactors.setFactors(factors)
DoPoseSetFactors ==
    \E factors \in PoseFactorInputs(pose.cs) :
        CommitPose(Pose_setFactors(pose, factors), "setFactors", NoPoseArgs)

\* The coordinate space of the position and of the render scale factors is
\* given another value.
DoPoseSetCoordinateSpace ==
    \E cs \in PoseSpaceNames \ {pose.cs} :
        CommitPose(Pose_setCoordinateSpace(pose, cs), "coordinateSpace", NoPoseArgs)

NextPose ==
    \/ DoPoseSnap
    \/ DoPoseTranslateDimension
    \/ DoPoseTranslateVoxels
    \/ DoPoseRotateAbsolute
    \/ DoPoseTranslateNonSpatialDimension
    \/ DoPoseRotateRelative
    \/ DoPoseGetSpatialPosition
    \/ DoPoseToMat3
    \/ DoPosePositionGetValue
    \/ DoPosePositionSnapToVoxel
    \/ DoPoseMarkSpatialCoordinatesChanged
    \/ DoPoseOrientationSnap
    \/ DoPoseRenderDimensionsReset
    \/ DoPoseUpdateSpatialPosition
    \/ DoPoseReset
    \/ DoPosePositionReset
    \/ DoPosePositionRestoreState
    \/ DoPosePositionSetValue
    \/ DoPoseOrientationReset
    \/ DoPoseOrientationRestore
    \/ DoPoseSetDimensionIndices
    \/ DoPoseSetFactors
    \/ DoPoseSetCoordinateSpace

SpecPose == InitPose /\ [][NextPose]_vars

-----------------------------------------------------------------------------
(* The state machine of one LinkedZoomState *)

\* Coordinate spaces of the pair.
ZoomPairSpaceNames == {"empty", "YX"}

InitLinkedZoom ==
    /\ PositionIdle
    /\ OrientationIdle
    /\ RenderScaleFactorsIdle
    /\ DisplayIdle
    /\ PoseIdle
    /\ \E cs \in ZoomPairSpaceNames, l \in NavigationLinkType :
          zoomPair = [LinkedZoomState(cs, l) EXCEPT !.stats = NoZoomPairStats]
    /\ zoomPairOp = [op |-> "makeLinked", who |-> "self"] @@ NoZoomPairStats

\* Largest numerator and denominator of a zoom value or ratio of the pairs
\* explored.
MaxPairZoom == 8

InZoomRange(x) == Abs(x.n) <= MaxPairZoom /\ x.d <= MaxPairZoom

\* The state after an operation op on who returned the pair P.
CommitZoomPair(P, op, who) ==
    /\ ~P.stats.overflow
    /\ InZoomRange(P.self.zoom.value_) /\ InZoomRange(P.peer.zoom.value_)
    /\ InZoomRange(P.d.v)
    /\ zoomPair' = [P EXCEPT !.stats = NoZoomPairStats]
    /\ zoomPairOp' = [op |-> op, who |-> who] @@ P.stats
    /\ UNCHANGED <<positionVars, orientationVars, renderScaleVars, displayVars,
                   poseVars>>

DoLinkedZoomSetValue ==
    \E who \in Sides, value \in ZoomInputs :
        CommitZoomPair(LinkedZoom_setValue(zoomPair, who, value), "setValue", who)

DoLinkedZoomReset ==
    \E who \in Sides : CommitZoomPair(LinkedZoom_reset(zoomPair, who), "reset", who)

DoLinkedZoomSetDimensionIndices ==
    \E who \in {"self"} :
        \E d \in DimensionIndexInputs(DisplaySpaces[zoomPair.self.cs].rank) :
            CommitZoomPair(
                LinkedZoom_setDimensionIndices(zoomPair, who, d.rank, d.dimensionIndices),
                "setDimensionIndices", who)

DoLinkedZoomSetFactors ==
    \E who \in {"peer"} :
        \E factors \in DisplayFactorInputs(DisplaySpaces[zoomPair.self.cs].rank) :
            CommitZoomPair(LinkedZoom_setFactors(zoomPair, who, factors), "setFactors", who)

DoLinkedZoomSetCoordinateSpace ==
    \E cs \in ZoomPairSpaceNames \ {zoomPair.self.cs} :
        CommitZoomPair(LinkedZoom_setCoordinateSpace(zoomPair, cs),
                       "setCoordinateSpace", "space")

DoLinkedZoomLinkUpdate ==
    \E l \in NavigationLinkType \ {zoomPair.link} :
        CommitZoomPair(LinkedZoom_setLink(zoomPair, l), "link", "link")

DoLinkedZoomCopyToPeer ==
    CommitZoomPair(LinkedZoom_copyToPeer(zoomPair), "copyToPeer", "wrapper")

\* JSON values handed to the wrapper's restoreState: undefined and objects
\* with a link mode, without a value, with the value 2 or with the value 0,
\* on which verifyFinitePositiveFloat throws.
LinkedZoomJsonInputs ==
    {UndefinedZoomLinkJson}
    \cup {[t |-> "object", link |-> l, value |-> v] :
             l \in NavigationLinkType, v \in {NaN, Num(2), Num(0)}}

\* wrapper.restoreState(obj)
DoLinkedZoomRestoreState ==
    \E json \in LinkedZoomJsonInputs :
        CommitZoomPair(LinkedZoom_restoreState(zoomPair, json), "restoreState", "wrapper")

\* wrapper.toJSON()
DoLinkedZoomToJSON ==
    CommitZoomPair(LinkedZoom_toJSON(zoomPair).P, "toJSON", "wrapper")

NextLinkedZoom ==
    \/ DoLinkedZoomCopyToPeer
    \/ DoLinkedZoomRestoreState
    \/ DoLinkedZoomToJSON
    \/ DoLinkedZoomSetValue
    \/ DoLinkedZoomReset
    \/ DoLinkedZoomSetDimensionIndices
    \/ DoLinkedZoomSetFactors
    \/ DoLinkedZoomSetCoordinateSpace
    \/ DoLinkedZoomLinkUpdate

SpecLinkedZoom == InitLinkedZoom /\ [][NextLinkedZoom]_vars

-----------------------------------------------------------------------------
(* Properties *)

\* The operations that change a Position and dispatch its changed signal.
Mutated(who) == lastOp.who = who /\ stats.mutated

\* The value a reader of who.value gets in the current state.
ValueRead(who) == GetValue(Current, who)[who].coords

Rank == Spaces[coordinateSpace].rank

\* C1: in mode LINKED, after a completed mutation of self or of peer both
\* hold the value the mutation gave to the mutated side (a self mutation
\* is copied to peer, a peer mutation is copied to self).
C1_LinkedMirror ==
    (link = LINKED /\ (Mutated("self") \/ Mutated("peer"))) =>
        /\ self.coords = stats.newValue
        /\ peer.coords = stats.newValue

C1_Witness ==
    /\ link = LINKED /\ Mutated("self") /\ lastOp.op = "setValue"
    /\ self.coords = <<2, 0>> /\ peer.coords = <<2, 0>>

\* C2: in mode RELATIVE with a voxel offset of the rank of self and peer,
\* after a completed mutation of self or peer the difference self - peer
\* is the stored offset, and the mutated side keeps the value the mutation
\* gave it (the other side is the one that moved).
C2_RelativeOffset ==
    ( /\ link = RELATIVE /\ (Mutated("self") \/ Mutated("peer"))
      /\ selfMinusPeer.kind = "voxelOffset"
      /\ Len(self.coords) = Len(selfMinusPeer.v)
      /\ Len(peer.coords) = Len(selfMinusPeer.v) ) =>
        /\ getOffset(self, peer) = selfMinusPeer
        /\ Mutated("self") => self.coords = stats.newValue
        /\ Mutated("peer") => peer.coords = stats.newValue

C2_Witness ==
    /\ link = RELATIVE /\ Mutated("self") /\ lastOp.op = "setValue"
    /\ selfMinusPeer = [kind |-> "voxelOffset", v |-> <<2, 0>>]
    /\ self.coords = <<0, 2>> /\ peer.coords = <<-2, 2>>


\* C3: in mode UNLINKED an operation on self leaves peer as it was; a
\* mutation of peer leaves self as it was, with no dispatch of
\* self.changed, when self is valid, and leaves self equal to peer when
\* self is not valid.
C3_Unlinked ==
    [][ (link = UNLINKED /\ link' = UNLINKED /\ lastOp'.who \in Sides) =>
          /\ lastOp'.who = "self" => peer' = peer
          /\ (lastOp'.who = "peer" /\ stats'.mutated /\ valid(Current)) =>
                (self' = self /\ stats'.selfDispatches = 0)
          /\ (lastOp'.who = "peer" /\ stats'.mutated /\ ~valid(Current)) =>
                (self' = peer' /\ stats'.selfDispatches > 0) ]_vars

C3_Witness ==
    /\ link = UNLINKED /\ Mutated("peer") /\ lastOp.op = "setValue"
    /\ lastOp.from = UNLINKED
    /\ peer.coords = <<2, 2>> /\ self.coords = <<0, 0>>
    /\ stats.selfDispatches = 0

\* C4: in modes LINKED and RELATIVE no propagation starts inside a
\* propagation in the opposite direction, and every dispatch made during a
\* propagation finds the guard of that propagation raised.
C4_NoFeedback ==
    (link \in {LINKED, RELATIVE} /\ lastOp.op # "makeLinked") =>
        (stats.feedback = {} /\ stats.guardsLow = {})

\* C5 as stated: one mutation of self in mode LINKED causes exactly one
\* dispatch of peer.changed and exactly one dispatch of self.changed after
\* the mutation's own.
C5_OneRoundTrip ==
    (link = LINKED /\ Mutated("self")) =>
        (stats.peerDispatches = 1 /\ stats.selfDispatches = 2)

\* C5 amended: in mode LINKED an accepted set value, a snapToVoxel or an
\* assign of self causes exactly one dispatch of peer.changed and exactly
\* one dispatch of self.changed back; reset and restoreState cause one or
\* two such round trips (two when the re-synchronization with a valid space
\* dispatches as well).  Self keeps the value the mutation gave it and the
\* cascade ends.
C5_BoundedRoundTrips ==
    (link = LINKED /\ Mutated("self")) =>
        /\ lastOp.op \in {"setValue", "snapToVoxel", "assign"} =>
              (stats.peerDispatches = 1 /\ stats.selfDispatches = 2)
        /\ lastOp.op \in {"reset", "restoreState"} =>
              /\ stats.peerDispatches \in {1, 2}
              /\ stats.selfDispatches = 2 * stats.peerDispatches
              /\ stats.peerDispatches = 2 <=> (valid(Current) /\ Rank > 0)
        /\ self.coords = stats.newValue
        /\ ~stats.overflow

C5_Witness ==
    /\ link = LINKED /\ Mutated("self") /\ lastOp.op = "reset"
    /\ stats.peerDispatches = 2 /\ stats.selfDispatches = 4
    /\ self.coords = <<1, 2>> /\ peer.coords = <<1, 2>>

\* C6 as stated: every link notification results in exactly one dispatch of
\* self.changed.
C6_ExactlyOneDispatch == lastOp.op = "link" => stats.selfDispatches = 1

\* C6 amended: every link notification results in at least one dispatch of
\* self.changed; in exactly one when the mode handled is UNLINKED, and in
\* at least two when it is LINKED (the change is copied to peer and comes
\* back), and in one or two when it is RELATIVE.
C6_AtLeastOneDispatch ==
    lastOp.op = "link" =>
        /\ stats.selfDispatches >= 1
        /\ link = UNLINKED => stats.selfDispatches = 1
        /\ link = LINKED => stats.selfDispatches >= 2
        /\ link = RELATIVE => stats.selfDispatches \in {1, 2}

C6_Witness ==
    /\ lastOp.op = "link" /\ lastOp.from = RELATIVE /\ link = RELATIVE
    /\ stats.selfDispatches = 1 /\ self.coords = <<0, 2>>

\* C7: the stored offset changes only in a link notification whose mode
\* differs from the mode handled before; such a notification sets it to
\* getOffset(self, peer) on entering RELATIVE and discards it on entering
\* LINKED or UNLINKED; every other step leaves it unchanged.
C7_OffsetFrame ==
    [][ /\ (lastOp'.op = "link" /\ link' # previousLinkValue) =>
              /\ link' = RELATIVE => selfMinusPeer' = getOffset(self, peer)
              /\ link' # RELATIVE => selfMinusPeer' = NoOffset
        /\ ~(lastOp'.op = "link" /\ link' # previousLinkValue) =>
              selfMinusPeer' = selfMinusPeer ]_vars

C7_Witness ==
    /\ lastOp.op = "link" /\ lastOp.from = UNLINKED /\ link = RELATIVE
    /\ selfMinusPeer = [kind |-> "voxelOffset", v |-> <<2, -2>>]

\* C8: a switch from RELATIVE to LINKED (whichever mode preceded RELATIVE,
\* LINKED included, and whatever was mutated in between) leaves self equal
\* to the value peer had when the switch was made, leaves peer at that
\* value, and leaves no stored offset.
C8_RoundTrip ==
    [][ (lastOp'.op = "link" /\ link = RELATIVE /\ link' = LINKED) =>
          /\ self'.coords = ValueRead("peer")
          /\ peer'.coords = ValueRead("peer")
          /\ selfMinusPeer' = NoOffset ]_vars

C8_Witness ==
    /\ lastOp.op = "link" /\ lastOp.from = RELATIVE /\ link = LINKED
    /\ selfMinusPeer = NoOffset
    /\ self.coords = <<2, 0>> /\ peer.coords = <<2, 0>>

\* C9: add and subtract are never called without a stored offset, whatever
\* the order of link changes and mutations and whatever the mode at
\* construction.
C9_OffsetDefined == ~stats.undefinedOffsetUsed

C9_Witness ==
    /\ lastOp.op = "makeLinked" /\ link = RELATIVE
    /\ "selfToPeer" \in stats.propagations
    /\ selfMinusPeer.kind # "undefined"

\* C10: whenever the coordinate space is valid, a read of value returns a
\* vector whose length is the rank of the space, for self and for peer.
C10_ValueLength ==
    valid(Current) => \A who \in Sides : Len(ValueRead(who)) = Rank

C10_Witness ==
    /\ lastOp.op = "getValue" /\ lastOp.who = "self" /\ valid(Current)
    /\ stats.selfDispatches = 1 /\ Len(self.coords) = 2 /\ Rank = 2

\* C11 as stated: whenever the coordinate space is invalid the coordinates
\* read from self and from peer are empty.
C11_EmptyWhenInvalid ==
    ~valid(Current) => \A who \in Sides : Len(ValueRead(who)) = 0

\* C11 amended: while the coordinate space is invalid a Position serializes
\* as undefined, has no coordinates after construction and after reset, and
\* restoreState leaves it with exactly the coordinates it was given (for
\* peer in every mode and for self in modes LINKED and UNLINKED); replacing the space by an invalid one leaves
\* the coordinates of self and peer as they were.
C11_KeptWhenInvalid ==
    [][ /\ ~valid(Current) =>
              \A who \in Sides :
                  /\ toJSON(Current, who).json = UndefinedJson
                  /\ lastOp.op = "makeLinked" => Current[who].coords = <<>>
                  /\ (who = "peer" \/ link # RELATIVE) =>
                        /\ reset(Current, who)[who].coords = <<>>
                        /\ \A obj \in JsonInputs :
                              restoreState(Current, who, obj)[who].coords = obj.a
        /\ (lastOp'.op = "setCoordinateSpace" /\ ~Spaces[coordinateSpace'].valid) =>
              (self'.coords = self.coords /\ peer'.coords = peer.coords) ]_vars

C11_Witness ==
    /\ ~valid(Current) /\ lastOp.op = "setCoordinateSpace"
    /\ peer.coords = <<1, 2>> /\ self.coords = <<1, 2>>

\* C12: when a valid space replaces a valid space that a Position is
\* synchronized with, every dimension whose id occurs in the old space gets
\* oldValue * (oldScale / newScale) and every other dimension gets the
\* center of its bounds (for peer in every mode, for self in mode UNLINKED).
IsRemapOf(old, new, prevSp, sp) ==
    /\ Len(new) = sp.rank
    /\ \A newDim \in 1..sp.rank :
          IF \E oldDim \in 1..prevSp.rank :
                 prevSp.dimensionIds[oldDim] = sp.dimensionIds[newDim]
          THEN \E oldDim \in 1..prevSp.rank :
                 /\ prevSp.dimensionIds[oldDim] = sp.dimensionIds[newDim]
                 /\ new[newDim] * sp.scales[newDim] = old[oldDim] * prevSp.scales[oldDim]
          ELSE new[newDim] = sp.lowerBounds[newDim] + sp.upperBounds[newDim]

C12_RemapFidelity ==
    [][ ( /\ lastOp'.op = "setCoordinateSpace"
          /\ valid(Current) /\ Spaces[coordinateSpace'].valid ) =>
            /\ peer.cur = coordinateSpace =>
                  IsRemapOf(peer.coords, peer'.coords,
                               Spaces[coordinateSpace], Spaces[coordinateSpace'])
            /\ (self.cur = coordinateSpace /\ link = UNLINKED) =>
                  IsRemapOf(self.coords, self'.coords,
                               Spaces[coordinateSpace], Spaces[coordinateSpace']) ]_vars

C12_Witness ==
    /\ lastOp.op = "setCoordinateSpace" /\ coordinateSpace = "B"
    /\ link = UNLINKED /\ peer.coords = <<1>> /\ self.coords = <<0>>

\* C13: in every reachable state a set value made while the coordinate
\* space is invalid, or with a vector whose length is not the rank, changes
\* neither Position, dispatches no change signal and raises no exception.
C13_Rejected ==
    \A who \in Sides, v \in InputVecs :
        (~valid(Current) \/ Len(v) # Rank) =>
            \E R \in {SetValue(Current, who, Stored(v))} :
                /\ R.self = self /\ R.peer = peer
                /\ R.stats.selfDispatches = 0 /\ R.stats.peerDispatches = 0
                /\ ~R.stats.rangeError

C13_Witness ==
    /\ lastOp.op = "setValue" /\ ~stats.mutated /\ valid(Current)
    /\ self.cur = coordinateSpace /\ self.coords = <<2, 2>>

\* C14: for self = makeRelative(peer, r), after every completed operation
\* self is peer * r; an operation on peer writes self once, dispatches
\* self.changed once and does not write peer; an operation on self sets
\* peer to self * inverse(r), dispatches peer.changed once and does not
\* write self.
C14_Relative ==
    /\ orient.self = quatMultiply(orient.peer, orient.peerToSelf)
    /\ (orientOp.op # "makeRelative" /\ orientOp.who = "peer") =>
          /\ orientOp.selfWrites = 1 /\ orientOp.selfDispatches = 1
          /\ orientOp.peerWrites = 0 /\ orientOp.peerDispatches = 1
    /\ (orientOp.op # "makeRelative" /\ orientOp.who = "self") =>
          /\ orient.peer = quatMultiply(orient.self, quatInvert(orient.peerToSelf))
          /\ orientOp.peerWrites = 1 /\ orientOp.peerDispatches = 1
          /\ orientOp.selfWrites = 0 /\ orientOp.selfDispatches = 1

C14_Witness ==
    /\ orientOp.op = "assign" /\ orientOp.who = "self"
    /\ orient.peerToSelf = <<1, 0, 0, 1>>
    /\ orient.self = <<0, 1, 0, 1>> /\ orient.peer # orient.self
    /\ orientOp.peerWrites = 1

\* C15: in every reachable state, snapping an orientation twice gives what
\* snapping it once gives, and a snapped orientation has length 1.
C15_SnapIdempotent ==
    \A who \in Sides :
        \E s1 \in {Orientation_snap(CurrentOrientation, who)} :
            \E s2 \in {Orientation_snap(s1, who)} :
                s2[who] = s1[who] /\ ~s2.stats.nonUnit

C15_Witness ==
    /\ orientOp.op = "snap" /\ orientOp.who = "self"
    /\ orientOp.moved /\ orient.self = <<1, 0, 0, 1>>
    /\ ~orientOp.nonUnit

-----------------------------------------------------------------------------
(* TrackableRenderScaleFactors *)

\* The value a read of who.value returns.
FactorsRead(who) == Factors_update(scaleFactors, who)[who]

\* C16: in every reachable state of a TrackableRenderScaleFactors every
\* factor is >= 0 and the factors array has the length of the rank of the
\* value's coordinate space.
C16_FactorsInvariant ==
    \A who \in Sides :
        /\ \A i \in 1..Len(FactorsRead(who).factors) : FactorsRead(who).factors[i] >= 0
        /\ Len(FactorsRead(who).factors) = DisplaySpaces[FactorsRead(who).cur].rank

\* The part of C16 that the code keeps: the stored array, and the array a
\* read returns, have the length of the rank of the space stored with them.
FactorsLengthIsRank ==
       \A who \in Sides :
          /\ Len(scaleFactors[who].factors) = DisplaySpaces[scaleFactors[who].cur].rank
          /\ Len(FactorsRead(who).factors) = DisplaySpaces[FactorsRead(who).cur].rank
          /\ FactorsRead(who).cur = scaleFactors.cs

-----------------------------------------------------------------------------
(* TrackableRenderDimensions *)

\* The first rank dimensions in index order, padded with -1.
DefaultIndices(rank) == [i \in 1..3 |-> IF i <= rank THEN i - 1 ELSE -1]

\* C17: while the default flag is set, the value read has rank
\* min(spaceRank, 3) and dimensionIndices [0..rank-1] padded with -1, after
\* any replacements of the coordinate space and of the scale factors; the
\* flag is cleared only by setDimensionIndices (which assign invokes for a
\* source that is not default), by a restoreState that matches at least one
\* dimension name, or by default = false.
C17_DefaultSelection ==
    /\ [](\E R \in {Dimensions_update(display)} :
            R.rd.default_ =>
                /\ R.rd.value_.rank = Min(DisplaySpaces[R.cs].rank, 3)
                /\ R.rd.value_.dimensionIndices = DefaultIndices(R.rd.value_.rank))
    /\ [][(display.rd.default_ /\ ~display'.rd.default_) =>
            \/ displayOp'.op \in {"setDimensionIndices", "assignDimensions", "setDefault"}
            \/ displayOp'.op = "restoreDimensions" /\ display'.rd.value_.rank >= 1]_vars

C17_Witness ==
    /\ displayOp.op = "setFactors"
    /\ display.cs = "XYZT"
    /\ display.rsf.factors[1] = 2
    /\ display.rd.default_
    /\ display.rd.fresh
    /\ display.rd.value_.rank = 3
    /\ display.rd.value_.dimensionIndices = <<0, 1, 2>>

\* What C18 states of a RenderDimensions value v.
CanonicalVoxel(v) ==
    /\ v.rank >= 1 =>
          /\ \A i \in 1..v.rank :
                v.voxelPhysicalScales[i] =
                    v.rsf.factors[v.dimensionIndices[i] + 1]
                        * DisplaySpaces[v.rsf.cur].scales[v.dimensionIndices[i] + 1]
          /\ \E i \in 1..v.rank : v.canonicalVoxelPhysicalSize = v.voxelPhysicalScales[i]
          /\ \A i \in 1..v.rank : v.canonicalVoxelPhysicalSize <= v.voxelPhysicalScales[i]
          /\ \A i \in 1..v.rank :
                FracMul(v.canonicalVoxelFactors[i], Num(v.canonicalVoxelPhysicalSize))
                    = Num(v.voxelPhysicalScales[i])
    /\ v.rank = 0 => v.canonicalVoxelUnit = "" /\ v.canonicalVoxelPhysicalSize = 1

\* C18: for every RenderDimensions value produced by assignValue with rank
\* >= 1, voxelPhysicalScales[i] is factors[d_i] * scales[d_i], the canonical
\* voxel physical size is the least of them, and canonicalVoxelFactors[i]
\* times that size is voxelPhysicalScales[i]; with rank 0 the unit is the
\* empty string and the size is 1.
C18_CanonicalVoxel ==
    /\ display.rd.value_.defined => CanonicalVoxel(display.rd.value_)
    /\ CanonicalVoxel(Dimensions_update(display).rd.value_)

\* What the code keeps of C18: the same for every value whose canonical
\* voxel physical size is not 0.
CanonicalVoxelWhenNonzero ==
    \A v \in {display.rd.value_, Dimensions_update(display).rd.value_} :
        (v.defined /\ v.canonicalVoxelPhysicalSize # 0) => CanonicalVoxel(v)

-----------------------------------------------------------------------------
(* TrackableZoom and TrackableCrossSectionZoom *)

\* C19: a zoom set to Z while the canonical voxel physical size is S1 reads
\* Z * S1 / S2 once a change of the render dimensions has made the size S2,
\* and over any sequence of such changes the value times the size stays
\* what it was.
C19_ApparentSizeKept ==
    \E R \in {Zoom_handleCoordinateSpaceChanged(display)} :
        R.stats.origin = "set" =>
            /\ R.rd.value_.canonicalVoxelPhysicalSize # 0 =>
                  R.zoom.value_ =
                     FracDiv(R.stats.product, Num(R.rd.value_.canonicalVoxelPhysicalSize))
            /\ FracMul(R.zoom.value_, Num(R.rd.value_.canonicalVoxelPhysicalSize))
                  = R.stats.product

\* What the code keeps of C19: the same as long as no size of 0 took part.
ApparentSizeKeptWhenNonzero ==
    \E R \in {Zoom_handleCoordinateSpaceChanged(display)} :
        (R.stats.origin = "set" /\ ~R.stats.zeroSize) =>
            /\ R.rd.value_.canonicalVoxelPhysicalSize # 0
            /\ R.zoom.value_ =
                  FracDiv(R.stats.product, Num(R.rd.value_.canonicalVoxelPhysicalSize))
            /\ FracMul(R.zoom.value_, Num(R.rd.value_.canonicalVoxelPhysicalSize))
                  = R.stats.product

\* The default of a cross-section zoom: 1, or the staged legacy value
\* / 1e9 / size.
CrossSectionDefault(legacyValue, size) ==
    IF isNaN(legacyValue) THEN Num(1) ELSE FracDiv(legacyValue, Num(size))

\* C20 as stated: a cross-section zoom never explicitly set reads, after
\* the first read and after every change of the canonical voxel size, the
\* default for the current size.
C20_DefaultRecomputed ==
    \E R \in {Zoom_handleCoordinateSpaceChanged(display)} :
        (~R.stats.explicit /\ DisplaySpaces[R.cs].valid /\ ~isNaN(R.zoom.value_)) =>
            R.zoom.value_ = CrossSectionDefault(R.zoom.legacyValue_,
                                                R.rd.value_.canonicalVoxelPhysicalSize)

\* C20, amended: a cross-section zoom never explicitly set takes the
\* default on a read while it is unset, the space is valid and the size is
\* not 0: 1, or the staged legacy value / 1e9 / size.  A later change of the
\* size (between sizes other than 0) rescales that value by old size / new
\* size instead of recomputing it: a staged legacy value still gives legacy
\* / 1e9 / size, a default of 1 becomes old size / new size.
C20_DefaultThenRescaled ==
    \E R \in {Zoom_handleCoordinateSpaceChanged(display)} :
        ~R.stats.explicit =>
            /\ (DisplaySpaces[R.cs].valid /\ R.rd.value_.canonicalVoxelPhysicalSize # 0)
                  => ~isNaN(R.zoom.value_)
            /\ R.stats.defaulted =>
                  R.zoom.value_ = CrossSectionDefault(R.zoom.legacyValue_,
                                      R.rd.value_.canonicalVoxelPhysicalSize)
            /\ (R.stats.origin = "default" /\ ~R.stats.zeroSize) =>
                  /\ FracMul(R.zoom.value_, Num(R.rd.value_.canonicalVoxelPhysicalSize))
                        = R.stats.product
                  /\ R.stats.product =
                        IF isNaN(R.zoom.legacyValue_)
                        THEN R.stats.product ELSE R.zoom.legacyValue_

C20_Witness ==
    /\ displayOp.op = "setCoordinateSpace"
    /\ ~display.stats.explicit
    /\ display.stats.origin = "default"
    /\ isNaN(display.zoom.legacyValue_)
    /\ display.zoom.value_ = Num(2)
    /\ display.zoom.curCanonicalVoxelPhysicalSize = 2

\* Whether every displayed dimension of D has finite bounds.
DisplayedBoundsFinite(D) ==
    \A i \in 1..D.rd.value_.rank :
        /\ isFinite(DisplaySpaces[D.cs].lowerBounds[D.rd.value_.dimensionIndices[i] + 1])
        /\ isFinite(DisplaySpaces[D.cs].upperBounds[D.rd.value_.dimensionIndices[i] + 1])

\* The largest canonicalVoxelFactors[i] * (upperBound - lowerBound) over the
\* displayed dimensions i < rank.
LargestDisplayedExtent(D) ==
    CHOOSE e \in {ProjectionExtent(D, i) : i \in 1..D.rd.value_.rank} :
        \A i \in 1..D.rd.value_.rank : FracMax(e, ProjectionExtent(D, i)) = e

\* What C21 states of the default of a projection zoom in state D.
ProjectionDefault(D) ==
    IF DisplayedBoundsFinite(D) THEN PowerOfTwoAbove(LargestDisplayedExtent(D))
    ELSE Num(1024)

\* C21: a projection zoom that is unset, with no legacy value staged, takes
\* on a read the least power of two >= the largest canonicalVoxelFactors[i]
\* * (upperBound - lowerBound) of the displayed dimensions when their bounds
\* are finite, whether 1, 2 or 3 dimensions are displayed, and 1024 only
\* when a displayed dimension has a bound that is not finite.
C21_ProjectionDefault ==
    \E R \in {Zoom_handleCoordinateSpaceChanged(display)} :
        (/\ display.projection
         /\ isNaN(display.zoom.legacyValue_)
         /\ R.stats.defaulted
         /\ R.rd.value_.rank >= 1) =>
            R.zoom.value_ = ProjectionDefault(R)

\* What the code keeps of C21: the same when three dimensions are
\* displayed, and 1024 whenever fewer are.
ProjectionDefaultOfRank3 ==
    \E R \in {Zoom_handleCoordinateSpaceChanged(display)} :
        (/\ display.projection
         /\ isNaN(display.zoom.legacyValue_)
         /\ R.stats.defaulted) =>
            R.zoom.value_ = IF R.rd.value_.rank = 3 THEN ProjectionDefault(R)
                            ELSE Num(1024)

-----------------------------------------------------------------------------
(* JSON forms *)

\* restoreState(toJSON()) of a Position gives back the value, when toJSON
\* returns a value.
PositionRoundTrip ==
    \A who \in Sides :
        \E T \in {toJSON(Current, who)} :
            T.json.t # "undefined" =>
                GetValue(restoreState(T.S, who, T.json), who)[who].coords
                    = T.S[who].coords

\* The same for an OrientationState.
OrientationRoundTrip ==
    \A who \in Sides :
        \E json \in {Orientation_toJSON(orient[who])} :
            json.t # "undefined" =>
                Orientation_restoreState(CurrentOrientation, who, json)[who]
                    = quatNormalize(orient[who])

\* The same for a TrackableRenderScaleFactors: restoreState returns and the
\* value read afterwards is the value serialized.
FactorsRoundTrip ==
    \A who \in Sides :
        \E F1 \in {Factors_update(scaleFactors, who)} :
            Factors_toJSON(F1[who]).t # "undefined" =>
                \E R \in {Factors_update(
                              Factors_restoreState(F1, who, Factors_toJSON(F1[who])), who)} :
                    /\ ~R.stats.threw
                    /\ R[who] = F1[who]

\* The same for a TrackableRenderDimensions.
DimensionsRoundTrip ==
    \E T \in {Dimensions_toJSON(display)} :
        T.json.t # "undefined" =>
            \E R \in {Dimensions_update(Dimensions_restoreState(T.D, T.json))} :
                /\ ~R.stats.threw
                /\ R.rd.default_ = T.D.rd.default_
                /\ R.rd.value_ = T.D.rd.value_

\* The same for a TrackableZoom.
ZoomRoundTrip ==
    \E T \in {Zoom_toJSON(display)} :
        ~isNaN(T.json) =>
            \E R \in {Zoom_handleCoordinateSpaceChanged(Zoom_restoreState(T.D, T.json))} :
                /\ ~R.stats.threw
                /\ R.zoom.value_ = T.D.zoom.value_

\* C22: for each of Position, OrientationState, RenderScaleFactors,
\* RenderDimensions and Zoom and every value that is not the default (one
\* that toJSON serializes), restoreState of the toJSON output, the
\* coordinate space unchanged, gives a state whose value is that value.
C22_JsonRoundTrip ==
    /\ PositionRoundTrip
    /\ OrientationRoundTrip
    /\ FactorsRoundTrip
    /\ DimensionsRoundTrip
    /\ ZoomRoundTrip

\* What the code keeps of C22 for scale factors: the round trip of values
\* whose factors are all positive (in a pair whose RELATIVE link has its
\* offsets).
FactorsRoundTripWhenPositive ==
    \A who \in Sides :
        \E F1 \in {Factors_update(scaleFactors, who)} :
            (/\ Factors_toJSON(F1[who]).t # "undefined"
             /\ \A i \in 1..Len(F1[who].factors) : F1[who].factors[i] > 0
             /\ ~F1.stats.threw
             /\ F1.link = RELATIVE => F1.d.kind # "undefined") =>
                \E R \in {Factors_update(
                              Factors_restoreState(F1, who, Factors_toJSON(F1[who])), who)} :
                    /\ ~R.stats.threw
                    /\ R[who] = F1[who]

\* What the code keeps of C22 for the zoom: the round trip of values that
\* are finite and positive.
ZoomRoundTripWhenPositive ==
    \E T \in {Zoom_toJSON(display)} :
        (~isNaN(T.json) /\ isFinite(T.json) /\ T.json.n > 0) =>
            \E R \in {Zoom_handleCoordinateSpaceChanged(Zoom_restoreState(T.D, T.json))} :
                /\ ~R.stats.threw
                /\ R.zoom.value_ = T.D.zoom.value_

\* who is as constructed or as reset() left it.
PositionDefault(who) ==
    \/ lastOp.op = "makeLinked"
    \/ lastOp.op = "reset" /\ lastOp.who = who

\* toJSON() of a Position in its default state returns undefined.
PositionDefaultAbsent ==
    \A who \in Sides :
        PositionDefault(who) => toJSON(Current, who).json.t = "undefined"

\* toJSON() of a Position in its default state returns the centre of the
\* bounds in a valid coordinate space of rank >= 1, and undefined otherwise.
PositionDefaultCentre ==
    \A who \in Sides :
        PositionDefault(who) =>
            toJSON(Current, who).json =
                IF valid(Current) /\ Rank >= 1
                THEN [t |-> "array", a |-> getBoundingBoxCenter(Spaces[coordinateSpace])]
                ELSE UndefinedJson

\* toJSON() of an OrientationState in its default state returns undefined.
OrientationDefaultAbsent ==
    \A who \in Sides :
        (orientOp.op = "reset" /\ orientOp.who = who) =>
            Orientation_toJSON(orient[who]).t = "undefined"

\* toJSON() of a TrackableRenderScaleFactors in its default state returns
\* undefined.
FactorsDefaultAbsent ==
    \A who \in Sides :
        (scaleOp.op = "makeLinked" \/ (scaleOp.op = "reset" /\ scaleOp.who = who)) =>
            Factors_toJSON(FactorsRead(who)).t = "undefined"

\* toJSON() of a TrackableRenderDimensions in its default state returns
\* undefined.
DimensionsDefaultAbsent ==
    displayOp.op \in {"new", "resetDimensions"} =>
        Dimensions_toJSON(display).json.t = "undefined"

\* toJSON() of a TrackableZoom in its default state returns undefined.
ZoomDefaultAbsent ==
    displayOp.op \in {"new", "resetZoom"} => isNaN(Zoom_toJSON(display).json)

\* toJSON() of a TrackableZoom in its default state returns the default
\* value of its class when the coordinate space is valid and the canonical
\* voxel physical size is not 0, and undefined otherwise.
ZoomDefaultValue ==
    displayOp.op \in {"new", "resetZoom"} =>
        \E T \in {Zoom_toJSON(display)} :
            T.json = IF /\ DisplaySpaces[T.D.cs].valid
                        /\ T.D.rd.value_.canonicalVoxelPhysicalSize # 0
                     THEN DefaultValue(T.D)
                     ELSE NaN

\* C23 as stated: toJSON() of each of the five entities in its default
\* state (freshly constructed or just after reset()) returns undefined,
\* also when the coordinate space is valid with rank >= 1.
C23_DefaultAbsent ==
    /\ PositionDefaultAbsent
    /\ OrientationDefaultAbsent
    /\ FactorsDefaultAbsent
    /\ DimensionsDefaultAbsent
    /\ ZoomDefaultAbsent

\* C23, amended: toJSON() of an OrientationState, a RenderScaleFactors and a
\* RenderDimensions in its default state returns undefined, also when the
\* coordinate space is valid with rank >= 1.  toJSON() of a Position and of a
\* Zoom in its default state returns undefined while the coordinate space
\* is invalid; in a valid coordinate space of rank >= 1 it returns the
\* centre of the bounds (Position) and the default zoom value (Zoom, when
\* the canonical voxel physical size is not 0), which the read stores.
C23_DefaultAbsentOrComputed ==
    /\ PositionDefaultCentre
    /\ OrientationDefaultAbsent
    /\ FactorsDefaultAbsent
    /\ DimensionsDefaultAbsent
    /\ ZoomDefaultValue

C23_Witness ==
    /\ lastOp.op = "reset" /\ lastOp.who = "self"
    /\ coordinateSpace = "A"
    /\ self = NewPosition
    /\ toJSON(Current, "self").json = [t |-> "array", a |-> <<1, 2>>]

\* restoreState(undefined) leaves a Position as reset() does.
PositionRestoreUndefined ==
    \A who \in Sides :
        \E R \in {restoreState(Current, who, UndefinedJson)} :
            \E Q \in {reset(Current, who)} :
                /\ R.self = Q.self /\ R.peer = Q.peer
                /\ GetValue(R, who)[who].coords = GetValue(Q, who)[who].coords

\* The same for an OrientationState: the identity.
OrientationRestoreUndefined ==
    \A who \in Sides :
        \E R \in {Orientation_restoreState(CurrentOrientation, who,
                                             [t |-> "undefined", a |-> <<>>])} :
            /\ R[who] = Orientation_reset(CurrentOrientation, who)[who]
            /\ R[who] = quatIdentity

\* The same for a TrackableRenderScaleFactors: the value read afterwards
\* has every factor 1.
FactorsRestoreUndefined ==
    \A who \in Sides :
        \E R \in {Factors_update(
                      Factors_restoreState(scaleFactors, who,
                                           [t |-> "undefined", o |-> EmptyObject]), who)} :
            /\ R[who] = Factors_update(Factors_reset(scaleFactors, who), who)[who]
            /\ \A i \in 1..Len(R[who].factors) : R[who].factors[i] = 1

\* The same for a TrackableRenderDimensions: the default selection.
DimensionsRestoreUndefined ==
    \E R \in {Dimensions_restoreState(display, [t |-> "undefined", names |-> <<>>])} :
        /\ R.rd = Dimensions_reset(display).rd
        /\ Dimensions_update(R).rd.default_
        /\ Dimensions_update(R).rd.value_.dimensionIndices =
              DefaultIndices(Min(DisplaySpaces[R.cs].rank, 3))

\* The same for a TrackableZoom: unset.
ZoomRestoreUndefined ==
    \E R \in {Zoom_restoreState(display, NaN)} :
        /\ R.zoom = Zoom_reset(display).zoom
        /\ ~R.stats.threw

\* C24: restoreState(undefined) puts each of Position, OrientationState,
\* RenderScaleFactors, RenderDimensions and Zoom into the state reset() puts
\* it into: empty or centre position, identity orientation, every scale
\* factor 1, default dimension selection, unset zoom.
C24_RestoreUndefinedResets ==
    /\ PositionRestoreUndefined
    /\ OrientationRestoreUndefined
    /\ FactorsRestoreUndefined
    /\ DimensionsRestoreUndefined
    /\ ZoomRestoreUndefined

\* Position.restoreState on malformed input returns normally and leaves the
\* Position as reset() does.
PositionMalformedRecovered ==
    \A who \in Sides :
        \E R \in {restoreState(Current, who, [t |-> "malformed", a |-> <<>>])} :
            /\ ~R.stats.parseError
            /\ R[who] = reset(Current, who)[who]

\* OrientationState.restoreState on malformed input returns normally and
\* leaves the identity.
OrientationMalformedRecovered ==
    \A who \in Sides :
        Orientation_restoreState(CurrentOrientation, who,
                                 [t |-> "malformed", a |-> <<>>])[who] = quatIdentity

\* JSON values the restoreState of the scale factors takes as malformed: a
\* number, and objects with a factor that is not positive.
MalformedFactorJson ==
    {[t |-> "number", o |-> EmptyObject], [t |-> "object", o |-> [n \in {"x"} |-> 0]],
     [t |-> "object", o |-> [n \in {"x"} |-> -1]]}

\* TrackableRenderScaleFactors.restoreState on malformed input returns
\* normally and leaves every factor 1.
FactorsMalformedRecovered ==
    \A who \in Sides, json \in MalformedFactorJson :
        \E R \in {Factors_update(Factors_restoreState(scaleFactors, who, json), who)} :
            /\ ~R.stats.threw
            /\ \A i \in 1..Len(R[who].factors) : R[who].factors[i] = 1

\* TrackableZoom.restoreState on a number that is not finite and positive
\* returns normally and leaves the zoom unset.
ZoomMalformedRecovered ==
    \A obj \in {Num(0), Num(-1), Frac(1, 0)} :
        \E R \in {Zoom_restoreState(display, obj)} :
            /\ ~R.stats.threw
            /\ R.zoom = NewZoom

\* C25: restoreState of a Position, an OrientationState, a RenderScaleFactors
\* and a Zoom on malformed input (wrong type, entries that are not finite
\* numbers, a zoom or factor that is not positive) returns normally with
\* the entity in its identity or default state; no error reaches the caller.
C25_MalformedRecovered ==
    /\ PositionMalformedRecovered
    /\ OrientationMalformedRecovered
    /\ FactorsMalformedRecovered
    /\ ZoomMalformedRecovered

-----------------------------------------------------------------------------
(* Link wrappers *)

\* LinkedBase.toJSON() returns undefined exactly in link mode LINKED and
\* otherwise the mode with the JSON of the value.
LinkedToJson ==
    \E T \in {LinkedPosition_toJSON(Current)} :
        /\ T.json.t = "undefined" <=> link = LINKED
        /\ link # LINKED =>
              T.json = [t |-> "object", link |-> link,
                        value |-> toJSON(Current, "self").json]

\* restoreState(undefined) and restoreState({}) leave the link mode LINKED.
LinkedRestoreAbsent ==
    \A json \in {UndefinedLinkJson(UndefinedJson), EmptyLinkJson(UndefinedJson)} :
        restoreLinkedFromJson(Current, json).link = LINKED

\* restoreState of the toJSON output of a LinkedPosition that is not LINKED
\* gives back the link mode and the value of self.
LinkedPositionRoundTrip ==
    link # LINKED =>
        \E T \in {LinkedPosition_toJSON(Current)} :
            \E R \in {restoreLinkedFromJson(T.S, T.json)} :
                /\ R.link = link
                /\ GetValue(R, "self").self.coords = T.S.self.coords

\* The same of a LinkedRenderScaleFactors.
LinkedFactorsRoundTrip ==
    scaleFactors.link # LINKED =>
        \E F1 \in {Factors_update(scaleFactors, "self")} :
            \E R \in {Factors_restoreLinkedFromJson(F1, LinkedFactors_toJSON(F1).json)} :
                /\ ~R.stats.threw
                /\ R.link = scaleFactors.link
                /\ Factors_update(R, "self").self = F1.self

\* What the code keeps of the round trip for scale factors: that of a
\* wrapper whose self factors are all positive.
LinkedFactorsRoundTripWhenPositive ==
    (/\ scaleFactors.link # LINKED
     /\ scaleFactors.link = RELATIVE => scaleFactors.d.kind # "undefined") =>
        \E F1 \in {Factors_update(scaleFactors, "self")} :
            (\A i \in 1..Len(F1.self.factors) : F1.self.factors[i] > 0) =>
                \E R \in {Factors_restoreLinkedFromJson(F1, LinkedFactors_toJSON(F1).json)} :
                    /\ ~R.stats.threw
                    /\ R.link = scaleFactors.link
                    /\ Factors_update(R, "self").self = F1.self

\* C26: a link wrapper's toJSON returns undefined exactly when its link mode
\* is LINKED and otherwise {link, value}; restoreState of undefined or of an
\* empty object sets the mode to LINKED; restoreState of the toJSON output
\* of a wrapper that is not LINKED restores its mode and its self value.
C26_LinkWrapperJson ==
    /\ LinkedToJson
    /\ LinkedRestoreAbsent
    /\ LinkedPositionRoundTrip
    /\ LinkedFactorsRoundTrip
    /\ scaleFactors.link = LINKED <=> LinkedFactors_toJSON(scaleFactors).json.t = "undefined"
    /\ \A json \in {UndefinedLinkJson(Factors_toJSON(NewRenderScaleFactors)),
                    EmptyLinkJson(Factors_toJSON(NewRenderScaleFactors))} :
          Factors_restoreLinkedFromJson(scaleFactors, json).link = LINKED

-----------------------------------------------------------------------------
(* TrackableRenderDimensions.restoreState with too many names *)

\* C27: restoreState with more than 3 dimension names raises an error to
\* the caller and leaves the default flag and the value as they were,
\* without a dispatch of changed.
C27_TooManyNamesRejected ==
    \A obj \in {o \in DimensionJsonInputs : Len(o.names) > 3} :
        \E R \in {Dimensions_restoreState(display, obj)} :
            /\ R.stats.threw
            /\ R.rd.default_ = display.rd.default_
            /\ R.rd.value_ = display.rd.value_
            /\ R.stats.rdDispatches = 0
            /\ R.stats.zoomDispatches = 0

\* restoreState with four names has thrown on an explicit selection, which
\* is still there.
C27_Witness ==
    /\ displayOp.op = "restoreDimensions"
    /\ displayOp.threw
    /\ ~display.rd.default_
    /\ display.rd.value_.defined
    /\ display.rd.value_.rank > 0

-----------------------------------------------------------------------------
(* Termination of the cascades *)

\* The cascades of every external event on the LinkedPosition in its
\* current state: a mutation of self or of peer, a link-mode change or
\* notification, a replacement of the coordinate space.
PositionEvents ==
    {SetValue(Current, who, Stored(v)) : who \in Sides, v \in InputVecs}
    \cup {reset(Current, who) : who \in Sides}
    \cup {restoreState(Current, who, obj) : who \in Sides, obj \in JsonInputs}
    \cup {snapToVoxel(Current, who) : who \in Sides}
    \cup {AssignFrom(Current, who, [cur |-> coordinateSpace, coords |-> Stored(v)]) :
             who \in Sides, v \in InputVecs}
    \cup {handleLinkUpdate([Current EXCEPT !.link = l]) : l \in NavigationLinkType}
    \cup {handleCoordinateSpaceChanged(
              handleCoordinateSpaceChanged([Current EXCEPT !.cs = cs], "peer"), "self") :
             cs \in SpaceNames}

\* The same of the pair built by makeRelative.
OrientationEvents ==
    {Orientation_restoreState(CurrentOrientation, who, obj) :
         who \in Sides, obj \in OrientationJsonInputs}
    \cup {Orientation_reset(CurrentOrientation, who) : who \in Sides}
    \cup {Orientation_snap(CurrentOrientation, who) : who \in Sides}
    \cup {Orientation_assign(CurrentOrientation, who, q) : who \in Sides, q \in QuatInputs}

\* Every external event that can follow the current state ends its cascade
\* within MaxCascade dispatches, with every handler returned and the guards
\* lowered.
EveryEventTerminates ==
    /\ \A R \in PositionEvents :
          /\ ~R.stats.overflow
          /\ R.stats.selfDispatches + R.stats.peerDispatches <= MaxCascade
          /\ R.inSelfToPeer = 0 /\ R.inPeerToSelf = 0
          /\ ~R.updatingSelf /\ ~R.updatingPeer
    /\ \A R \in OrientationEvents :
          /\ R.stats.selfDispatches + R.stats.peerDispatches <= MaxCascade
          /\ ~R.updatingSelf /\ ~R.updatingPeer

\* C28: on a linked pair in any link mode every external event (a mutation
\* of self, a mutation of peer, a link-mode change, a coordinate-space
\* replacement) triggers finitely many dispatches and handler invocations:
\* the cascade of the event that led to the state ended within MaxCascade
\* dispatches and left the guards lowered.
C28_CascadeTerminates ==
    /\ ~stats.overflow
    /\ stats.selfDispatches + stats.peerDispatches <= MaxCascade
    /\ ~updatingSelf /\ ~updatingPeer
    /\ orientOp.op # "makeRelative" =>
          orientOp.selfDispatches + orientOp.peerDispatches <= MaxCascade
    /\ ~orient.updatingSelf /\ ~orient.updatingPeer

\* A link-mode change into LINKED whose cascade went from self to peer and
\* back has ended.
C28_Witness ==
    /\ lastOp.op = "link" /\ lastOp.from = RELATIVE /\ link = LINKED
    /\ stats.peerDispatches >= 1 /\ stats.selfDispatches >= 3
    /\ stats.feedback # {}
    /\ ~stats.overflow

-----------------------------------------------------------------------------
(* LinkedZoomState in RELATIVE mode *)

\* value * canonicalVoxelPhysicalSize of who, as read from the pair P
PhysicalZoom(P, who) == FracMul(P[who].zoom.value_, Num(SizeOf(P, who)))

\* The pair after a read of self.value and of peer.value
ZoomPairRead == ReadValue(ReadValue(zoomPair, "self"), "peer")

\* A mutation of self or of peer or a change of the render dimensions of
\* either has completed in mode RELATIVE, the ratio frozen.
RelativeZoomChanged ==
    /\ zoomPair.link = RELATIVE /\ zoomPair.prev = RELATIVE
    /\ zoomPair.d.defined
    /\ zoomPairOp.op \in {"setValue", "reset", "setDimensionIndices", "setFactors"}

\* C29: for a LinkedZoomState in RELATIVE mode with frozen ratio d, after
\* every completed peer mutation, self mutation and change of either side's
\* RenderDimensions, (self.value * self.canonicalVoxelPhysicalSize) /
\* (peer.value * peer.canonicalVoxelPhysicalSize) = d, whatever dimensions
\* self and peer display.
C29_RelativeRatioKept ==
    RelativeZoomChanged =>
        \E R \in {ZoomPairRead} :
            FracDiv(PhysicalZoom(R, "self"), PhysicalZoom(R, "peer")) = zoomPair.d.v

\* What the code keeps of C29: the ratio of a pair whose zooms both have a
\* value and that has met no canonical voxel size of 0.
RelativeRatioKeptWhenNonzero ==
    (RelativeZoomChanged /\ ~zoomPair.zeroSize) =>
        \E R \in {ZoomPairRead} :
            (~isNaN(R.self.zoom.value_) /\ ~isNaN(R.peer.zoom.value_)) =>
                FracDiv(PhysicalZoom(R, "self"), PhysicalZoom(R, "peer")) = zoomPair.d.v

\* self and peer display different dimensions, of different canonical
\* voxel sizes, and the ratio holds.
RelativeRatioSeen ==
    /\ RelativeZoomChanged
    /\ zoomPair.self.rd.value_.dimensionIndices # zoomPair.peer.rd.value_.dimensionIndices
    /\ SizeOf(zoomPair, "self") # SizeOf(zoomPair, "peer")
    /\ zoomPair.d.v \notin {NaN, Num(1)}
    /\ FracDiv(PhysicalZoom(zoomPair, "self"), PhysicalZoom(zoomPair, "peer")) = zoomPair.d.v

-----------------------------------------------------------------------------
(* An explicit dimension selection under a new coordinate space *)

\* The ids of the dimensions the RenderDimensions value v displays, in the
\* coordinate space stored with it.
ChosenIds(v) ==
    [i \in 1..v.rank |-> DisplaySpaces[v.rsf.cur].dimensionIds[v.dimensionIndices[i] + 1]]

\* Those of them the coordinate space sp has, in the same order.
SurvivingIds(v, sp) ==
    SelectSeq(ChosenIds(v), LAMBDA id : \E j \in 1..sp.rank : sp.dimensionIds[j] = id)

\* What C30 states of the display state D that follows a selection v.
ExplicitSelectionRemapped(v, D) ==
    IF SurvivingIds(v, DisplaySpaces[D.cs]) = <<>>
    THEN /\ D.rd.default_
         /\ D.rd.value_.rank = Min(DisplaySpaces[D.cs].rank, 3)
         /\ D.rd.value_.dimensionIndices = DefaultIndices(D.rd.value_.rank)
    ELSE /\ ~D.rd.default_
         /\ D.rd.value_.rank = Len(SurvivingIds(v, DisplaySpaces[D.cs]))
         /\ \A k \in 1..3 :
               IF k <= D.rd.value_.rank
               THEN /\ D.rd.value_.dimensionIndices[k] \in 0..(DisplaySpaces[D.cs].rank - 1)
                    /\ DisplaySpaces[D.cs].dimensionIds[D.rd.value_.dimensionIndices[k] + 1]
                           = SurvivingIds(v, DisplaySpaces[D.cs])[k]
               ELSE D.rd.value_.dimensionIndices[k] = -1

\* C30: with an explicit (non-default) dimension selection, replacing the
\* coordinate space maps each chosen dimension to the index of the
\* dimension with the same id in the new space, drops the chosen dimensions
\* whose id vanished, keeps the relative order of the survivors and pads
\* with -1; if every chosen dimension vanished, the default flag becomes set
\* and the first min(rank, 3) dimensions are selected.
C30_ExplicitSelectionRemapped ==
    [][(/\ displayOp'.op = "setCoordinateSpace"
        /\ display'.cs # display.cs
        /\ display.rd.value_.defined
        /\ ~display.rd.default_) =>
           ExplicitSelectionRemapped(display.rd.value_, display')]_vars

\* The selection [x, y, t] of the space XYZT reached YX, which has no t
\* and has y before x; or the selection [x, y] did.
C30_Witness ==
    /\ displayOp.op = "setCoordinateSpace"
    /\ display.cs = "YX"
    /\ ~display.rd.default_
    /\ display.rd.fresh
    /\ display.rd.value_.rank = 2
    /\ display.rd.value_.dimensionIndices = <<1, 0, -1>>

-----------------------------------------------------------------------------
(* OrientationState.restoreState on a malformed value *)

\* The number of dispatches of who's change signal the last operation made.
OrientationDispatchesOf(who) ==
    IF who = "self" THEN orientOp.selfDispatches ELSE orientOp.peerDispatches

\* C34: OrientationState.restoreState on a malformed value (a value that is
\* no array, an array with an entry that is no number, an array of the
\* wrong length) raises no error, leaves the orientation equal to the
\* identity quaternion and dispatches the change signal once.
C34_MalformedOrientation ==
    orientOp.op = "restoreMalformed" =>
        /\ orient[orientOp.who] = quatIdentity
        /\ OrientationDispatchesOf(orientOp.who) = 1

\* An orientation that was not the identity was restored from a malformed
\* value.
C34_Witness ==
    /\ orientOp.op = "restoreMalformed" /\ orientOp.who = "self"
    /\ orientOp.moved
    /\ orient.self = quatIdentity
    /\ orientOp.selfDispatches = 1

-----------------------------------------------------------------------------
(* Position.getOffset and Position.addOffset when the ranks differ *)

\* The offset C35 says getOffset(a, b) returns for the coordinates a and b.
OffsetOfCoordinates(a, b) ==
    IF Len(a) = Len(b)
    THEN [kind |-> "voxelOffset", v |-> [i \in 1..Len(a) |-> a[i] - b[i]]]
    ELSE [kind |-> "empty", v |-> <<>>]

\* The stored offset cannot be added to a source with the coordinates c.
OffsetUnusable(c) ==
    selfMinusPeer.kind = "empty" \/ Len(selfMinusPeer.v) # Len(c)

\* C35: the offset captured on entering RELATIVE (Position.getOffset) is the
\* elementwise difference self - peer when both coordinate vectors have the
\* same length and an empty offset otherwise; with an empty offset, or a
\* voxel offset whose length differs from the length of peer's coordinates,
\* a change of peer in mode RELATIVE adds nothing to self: self keeps the
\* value a read of it returned before the change.
C35_OffsetRanks ==
    /\ [][(lastOp'.op = "link" /\ link' = RELATIVE /\ previousLinkValue # RELATIVE) =>
             selfMinusPeer' = OffsetOfCoordinates(self.coords, peer.coords)]_vars
    /\ [][(/\ link = RELATIVE /\ link' = RELATIVE /\ previousLinkValue = RELATIVE
            /\ lastOp'.who = "peer" /\ lastOp'.op # "getValue"
            /\ OffsetUnusable(peer'.coords)) =>
             self'.coords = ValueRead("self")]_vars

\* The offset was captured at rank 2; peer was set in a space of rank 1 and
\* self, at another value, stayed where it was.
C35_Witness ==
    /\ link = RELATIVE /\ lastOp.op = "setValue" /\ lastOp.who = "peer" /\ stats.mutated
    /\ selfMinusPeer.kind = "voxelOffset" /\ Len(selfMinusPeer.v) = 2
    /\ Len(peer.coords) = 1 /\ Len(self.coords) = 1
    /\ self.coords # peer.coords

\* The offset captured is empty and peer was set.
EmptyOffsetSeen ==
    /\ link = RELATIVE /\ lastOp.op = "setValue" /\ lastOp.who = "peer" /\ stats.mutated
    /\ selfMinusPeer.kind = "empty"
    /\ self.coords # peer.coords

-----------------------------------------------------------------------------
(* LinkedBase.copyToPeer *)

\* C36: copyToPeer in mode RELATIVE or UNLINKED leaves the mode LINKED,
\* peer's value equal to the value self had before the call and self's
\* value unchanged; in mode LINKED it changes nothing and dispatches
\* nothing.
C36_CopyToPeer ==
    [][lastOp'.op = "copyToPeer" =>
         IF link = LINKED
         THEN /\ UNCHANGED <<coordinateSpace, self, peer, link, selfMinusPeer,
                             previousLinkValue, updatingSelf, updatingPeer>>
              /\ stats'.selfDispatches = 0 /\ stats'.peerDispatches = 0
         ELSE /\ link' = LINKED
              /\ peer'.coords = ValueRead("self")
              /\ self'.coords = ValueRead("self")]_vars

\* copyToPeer brought self's value to a peer that held another one, in a
\* mode that was RELATIVE.
C36_Witness ==
    /\ lastOp.op = "copyToPeer" /\ lastOp.from = RELATIVE
    /\ link = LINKED
    /\ selfMinusPeer = NoOffset
    /\ stats.peerDispatches >= 1
    /\ self.coords = <<2, 0>> /\ peer.coords = <<2, 0>>

\* The values a read of self.value and of peer.value return after the step
ZoomPairReadNext == ReadValue(ReadValue(zoomPair', "self"), "peer")

\* C36 for a LinkedZoomState: copyToPeer in mode RELATIVE or UNLINKED leaves
\* the mode LINKED, peer's zoom equal to the zoom self had before the call
\* and self's zoom unchanged.
C36_ZoomCopyToPeer ==
    [][(zoomPairOp'.op = "copyToPeer" /\ zoomPair.link # LINKED) =>
         /\ zoomPair'.link = LINKED
         /\ ZoomPairReadNext.peer.zoom.value_ = ZoomPairRead.self.zoom.value_
         /\ ZoomPairReadNext.self.zoom.value_ = ZoomPairRead.self.zoom.value_]_vars

\* copyToPeer of a LinkedZoomState leaves self's zoom unchanged.
ZoomCopyToPeerKeepsSelf ==
    [][(zoomPairOp'.op = "copyToPeer" /\ zoomPair.link # LINKED) =>
         ZoomPairReadNext.self.zoom.value_ = ZoomPairRead.self.zoom.value_]_vars

\* Where both canonical voxel sizes are nonzero and self's zoom is finite,
\* copyToPeer of a LinkedZoomState leaves self's zoom unchanged and gives
\* peer the physical scale of self.
ZoomCopyToPeerPhysical ==
    [][(/\ zoomPairOp'.op = "copyToPeer" /\ zoomPair.link # LINKED
        /\ SizeOf(zoomPair, "self") # 0 /\ SizeOf(zoomPair, "peer") # 0
        /\ isFinite(ZoomPairRead.self.zoom.value_)) =>
         /\ zoomPair'.link = LINKED
         /\ ZoomPairReadNext.self.zoom.value_ = ZoomPairRead.self.zoom.value_
         /\ PhysicalZoom(ZoomPairReadNext, "peer") = PhysicalZoom(ZoomPairRead, "self")]_vars

-----------------------------------------------------------------------------
(* restoreState of a LinkedZoomState with a value the zoom rejects *)

\* An exception of the zoom's restoreState reaches the caller of the
\* wrapper's restoreState before the link is read: the mode is left
\* UNLINKED, whatever the object asked for, and no ratio is stored.
ZoomRestoreThrowLeavesUnlinked ==
    [][zoomPairOp'.threw =>
          /\ zoomPairOp'.op = "restoreState"
          /\ zoomPair'.link = UNLINKED /\ zoomPair'.prev = UNLINKED
          /\ ~zoomPair'.d.defined
          /\ zoomPair'.peer = zoomPair.peer
          /\ zoomPairOp'.peerDispatches = 0
          /\ zoomPairOp'.selfDispatches = IF zoomPair.link = UNLINKED THEN 0 ELSE 1]_vars

\* restoreState threw on a pair that was in mode RELATIVE.
ZoomRestoreThrew ==
    /\ zoomPairOp.op = "restoreState" /\ zoomPairOp.threw
    /\ zoomPairOp.selfDispatches = 1
    /\ zoomPair.link = UNLINKED
    /\ zoomPair.self.zoom.curCanonicalVoxelPhysicalSize = 0

-----------------------------------------------------------------------------
(* restoreLinkedFromJson with a link of unlinked or relative *)

\* The wrapper was restored from a non-empty object whose link is unlinked
\* or relative (the link is restored last, so it is the mode afterwards).
RestoredUnlinkedOrRelative ==
    /\ lastOp.op \in {"restoreLinked", "restoreLinkedNoValue"}
    /\ link # LINKED

\* C37: restoring a link wrapper from a non-empty object whose link is
\* unlinked or relative leaves the value a read of peer returns unchanged,
\* whatever the mode was before; for relative the stored offset is the
\* difference of self's coordinates after the restore of the value and
\* peer's coordinates, for unlinked no offset is stored.
C37_RestoreKeepsPeer ==
    [][RestoredUnlinkedOrRelative' =>
         /\ ValueRead("peer")' = ValueRead("peer")
         /\ link' = RELATIVE =>
               selfMinusPeer' =
                   OffsetOfCoordinates(IF lastOp'.op = "restoreLinked" THEN self'.coords
                                       ELSE self.coords, peer.coords)
         /\ link' = UNLINKED => selfMinusPeer' = NoOffset]_vars

\* A LINKED wrapper was restored from an object with link relative and a
\* value other than peer's: peer kept its value and the offset is not zero.
C37_Witness ==
    /\ lastOp.op = "restoreLinked" /\ lastOp.from = LINKED
    /\ link = RELATIVE
    /\ self.coords = <<2, 0>> /\ peer.coords = <<0, 2>>
    /\ selfMinusPeer = [kind |-> "voxelOffset", v |-> <<2, -2>>]

-----------------------------------------------------------------------------
(* A valid space after an invalid one *)

\* The coordinate space was replaced by cs' and no other operation ran.
SpaceReplaced == lastOp'.op = "setCoordinateSpace"

\* C38: for a Position that no link writes (mode UNLINKED), replacing a
\* valid coordinate space by an invalid one keeps the stored coordinates,
\* and replacing an invalid space by a valid one keeps them when their
\* number is the new rank, whatever the dimension ids and scales of the
\* new space, and replaces them by the center of the new space's bounding
\* box otherwise.
C38_KeptAcrossInvalid ==
    [][(SpaceReplaced /\ link = UNLINKED) =>
         \A who \in Sides :
            LET before == IF who = "self" THEN self ELSE peer
                after == IF who = "self" THEN self' ELSE peer'
                sp == Spaces[coordinateSpace']
            IN  /\ ~sp.valid => after.coords = before.coords
                /\ (sp.valid /\ ~Spaces[coordinateSpace].valid) =>
                      after.coords = IF Len(before.coords) = sp.rank THEN before.coords
                                     ELSE getBoundingBoxCenter(sp)]_vars

\* Space C (rank 2, dimensions of A in the other order, another scale)
\* follows an invalid space and self holds (1, 0), which is neither the
\* center of C nor what matching A's dimensions by id gives.
C38_Witness ==
    /\ lastOp.op = "setCoordinateSpace" /\ link = UNLINKED
    /\ coordinateSpace = "C"
    /\ self = [cur |-> "C", coords |-> <<2, 0>>]

\* A valid space directly after another valid one: the coordinates are
\* matched by dimension id and rescaled (A to C), unlike in C38.
RemappedWithoutInvalid ==
    /\ lastOp.op = "setCoordinateSpace" /\ link = UNLINKED
    /\ coordinateSpace = "C"
    /\ self = [cur |-> "C", coords |-> <<1, 0>>]

-----------------------------------------------------------------------------
(* set value of a Position that is not synchronized *)

\* The Position of a side
PositionOf(who) == IF who = "self" THEN self ELSE peer

\* C39: set value on a Position whose last synchronized space is undefined
\* (after reset() or restoreState(undefined), before anything synchronized
\* it again) changes nothing and dispatches nothing, whatever the vector
\* and whether or not the coordinate space is valid.
C39_SetValueAfterReset ==
    [][\A who \in Sides :
         (lastOp'.op = "setValue" /\ lastOp'.who = who
          /\ PositionOf(who).cur = Undefined) =>
            /\ UNCHANGED <<coordinateSpace, self, peer, link, selfMinusPeer,
                           previousLinkValue, updatingSelf, updatingPeer>>
            /\ stats'.selfDispatches = 0 /\ stats'.peerDispatches = 0]_vars

\* set value ran on a self that was reset and not synchronized since,
\* under the valid space A: self still holds no coordinates.
C39_Witness ==
    /\ lastOp.op = "setValue" /\ lastOp.who = "self"
    /\ coordinateSpace = "A"
    /\ self = [cur |-> Undefined, coords |-> kEmptyFloat32Vec]
    /\ stats.selfDispatches = 0

\* A reset in mode LINKED or RELATIVE is followed by the link's assign, add
\* or subtract, which synchronizes the Position that was reset.
ResetSynchronizedByLink ==
    (lastOp.op = "reset" /\ link # UNLINKED /\ Spaces[coordinateSpace].valid) =>
        PositionOf(lastOp.who).cur = coordinateSpace

-----------------------------------------------------------------------------
(* The canonical voxel size a restored zoom is bound to *)

\* The operations that give the zoom a value or take it away.
ZoomValueOps == {"setZoom", "setLegacyZoom", "restoreZoom", "resetZoom"}

\* The zoom holds a value that restoreState left.
RestoredZoom == display.stats.origin = "none" /\ ~isNaN(display.zoom.value_)

\* The zoom is as restoreState left it: no handleCoordinateSpaceChanged has
\* recorded a size or a space since.
ZoomUnbound ==
    /\ display.zoom.curCanonicalVoxelPhysicalSize = 0
    /\ display.zoom.curCoordinateSpace = emptyCoordinateSpace

\* The value after a step that rescaled from the recorded size to the new one.
RescaledByRecordedSize ==
    FracMul(display.zoom.value_,
            FracDiv(Num(display.zoom.curCanonicalVoxelPhysicalSize),
                    Num(display'.zoom.curCanonicalVoxelPhysicalSize)))

\* What C40 says of a step that is not a set, restore or reset of the zoom.
RestoredZoomStep ==
    IF ZoomUnbound
    THEN /\ display'.zoom.value_ = display.zoom.value_
         /\ displayOp'.zoomDispatches = 0
         /\ display'.zoom.curCanonicalVoxelPhysicalSize
               \in {0, display'.rd.value_.canonicalVoxelPhysicalSize}
    ELSE IF display'.zoom.curCanonicalVoxelPhysicalSize
               # display.zoom.curCanonicalVoxelPhysicalSize
    THEN display'.zoom.value_ = RescaledByRecordedSize
    ELSE display'.zoom.value_ = display.zoom.value_

\* C40: a value x left by restoreState is bound to the canonical voxel size
\* of the first later synchronization: that handleCoordinateSpaceChanged
\* records the size S1 without rescaling and without dispatching, and every
\* later change of the recorded size from S1 to S2 rescales the value by
\* S1 / S2.
C40_RestoreBinding ==
    [][(RestoredZoom /\ displayOp'.op \notin ZoomValueOps) => RestoredZoomStep]_vars

\* What the code keeps of C40: the same wherever the recorded size is not
\* the 0 of a canonical voxel size of 0.
RestoreBindingWhenNonzero ==
    [][(/\ RestoredZoom /\ displayOp'.op \notin ZoomValueOps
        /\ (ZoomUnbound \/ display.zoom.curCanonicalVoxelPhysicalSize # 0)) =>
           RestoredZoomStep]_vars

\* restoreState that returns leaves the zoom unbound and dispatches once.
RestoreLeavesUnbound ==
    [][(displayOp'.op = "restoreZoom" /\ ~displayOp'.threw) =>
          /\ ZoomUnbound'
          /\ displayOp'.zoomDispatches = 1]_vars

\* restoreState(2) under the invalid space, then the space X (size 4):
\* without a read in between the value is 2, bound to 4; with a read in
\* between it was bound to the size 1 of the invalid space and is 2 * 1 / 4.
RestoredBoundToNewSize ==
    /\ displayOp.op = "setCoordinateSpace" /\ display.cs = "X"
    /\ display.rsf.factors = <<1>>
    /\ display.stats.origin = "none"
    /\ display.zoom.value_ = Num(2)
    /\ display.zoom.curCanonicalVoxelPhysicalSize = 4

RestoredBoundToOldSize ==
    /\ displayOp.op = "setCoordinateSpace" /\ display.cs = "X"
    /\ display.rsf.factors = <<1>>
    /\ display.stats.origin = "none"
    /\ display.zoom.value_ = Frac(1, 2)
    /\ display.zoom.curCanonicalVoxelPhysicalSize = 4

-----------------------------------------------------------------------------
(* Pose.snap *)

\* The coordinates a read of pose.position.value returns.
PoseValueRead == Pose_handleCoordinateSpaceChanged(pose).position.coords

\* The Pose once pose.position.value and pose.renderDimensions.value were
\* read.
PoseRead == Pose_renderDimensionsUpdate(Pose_handleCoordinateSpaceChanged(pose))

\* What snap() does to the position and the orientation: every coordinate
\* becomes the nearest integer, the orientation the axis-aligned one
\* OrientationState.snap chooses.
PoseSnapped ==
    /\ pose'.position.coords = [i \in 1..Len(PoseValueRead) |-> FracRound(PoseValueRead[i])]
    /\ pose'.orientation = fromMat3(SnapMat(pose.orientation)).q

\* C31 as stated: snap() rounds and snaps and Pose.changed is dispatched
\* exactly once.
C31_SnapDispatchesOnce ==
    [][poseOp'.op = "snap" => (PoseSnapped /\ poseOp'.stats.changed = 1)]_vars

\* C31, amended: snap() rounds every position coordinate to the nearest
\* integer and snaps the orientation; Pose.changed is dispatched once for
\* the orientation's dispatch, once for each dispatch of the position (one,
\* or two when snapToVoxel first synchronizes the position with a valid
\* coordinate space) and once by snap() itself: three or four times.
C31_SnapDispatches ==
    [][poseOp'.op = "snap" =>
         /\ PoseSnapped
         /\ poseOp'.stats.orientation = 1
         /\ poseOp'.stats.position =
               IF pose.position.cur # pose.cs /\ PoseSpaces[pose.cs].valid THEN 2 ELSE 1
         /\ poseOp'.stats.changed
               = poseOp'.stats.orientation + poseOp'.stats.position + 1]_vars

\* snap() ran on a synchronized position and left it at the voxel (1, -1)
\* with the identity orientation, after three dispatches of Pose.changed.
C31_Witness ==
    /\ poseOp.op = "snap" /\ poseOp.stats.changed = 3
    /\ pose.cs = "XT"
    /\ pose.position.coords = <<Num(1), Num(-1)>>
    /\ pose.orientation = quatIdentity

\* snap() of a position that was not synchronized: four dispatches.
SnapAfterReset ==
    /\ poseOp.op = "snap" /\ poseOp.stats.changed = 4
    /\ pose.cs = "XT"
    /\ pose.position.coords = <<Num(1), Num(0)>>

-----------------------------------------------------------------------------
(* Pose.translateDimensionRelative and Pose.translateVoxelsRelative *)

PoseTranslationOps == {"translateDimensionRelative", "translateVoxelsRelative"}

\* The adjustment the step applies to the coordinate k (from 1), <<>> when
\* the step does not touch it.
TouchedBy(k) ==
    IF poseOp'.op = "translateDimensionRelative"
    THEN IF poseOp'.args.dimensionIndex + 1 = k THEN poseOp'.args.adjustment ELSE <<>>
    ELSE IF DisplayedAt(PoseRead.rd, k - 1) = 0 THEN <<>>
    ELSE <<transformQuat(poseOp'.args.adjustment,
                         pose.orientation)[DisplayedAt(PoseRead.rd, k - 1)]>>

\* The interval [floor(lower), ceil(upper - 1)] of the dimension k.
InClampInterval(x, k) ==
    /\ FracSub(x, FracFloor(PoseSpaces[pose.cs].lowerBounds[k])).n >= 0
    /\ FracSub(FracCeil(FracSub(PoseSpaces[pose.cs].upperBounds[k], Num(1))), x).n >= 0

\* The value the statement gives for a coordinate old translated by adj in
\* the dimension k.
StatedTranslation(old, adj, k) ==
    IF adj.n > 0
    THEN IF isFinite(PoseSpaces[pose.cs].upperBounds[k])
         THEN FracMin(FracAdd(old, adj),
                      FracCeil(FracSub(PoseSpaces[pose.cs].upperBounds[k], Num(1))))
         ELSE FracAdd(old, adj)
    ELSE IF isFinite(PoseSpaces[pose.cs].lowerBounds[k])
         THEN FracMax(FracAdd(old, adj), FracFloor(PoseSpaces[pose.cs].lowerBounds[k]))
         ELSE FracAdd(old, adj)

TranslatedAsStated(k) ==
    \/ TouchedBy(k) = <<>>
    \/ /\ pose'.position.coords[k] = StatedTranslation(PoseValueRead[k], TouchedBy(k)[1], k)
       /\ ( /\ isFinite(PoseSpaces[pose.cs].lowerBounds[k])
            /\ isFinite(PoseSpaces[pose.cs].upperBounds[k])
            /\ InClampInterval(PoseValueRead[k], k) )
          => InClampInterval(pose'.position.coords[k], k)

\* C32: translateDimensionRelative and translateVoxelsRelative give every
\* coordinate they touch the value min(old + adj, ceil(upper - 1)) for
\* adj > 0 and a finite upper bound, max(old + adj, floor(lower)) for
\* adj <= 0 and a finite lower bound, and old + adj otherwise; a coordinate
\* of a dimension with finite bounds that is inside
\* [floor(lower), ceil(upper - 1)] stays inside it; on an invalid pose
\* both change nothing and dispatch nothing.
C32_TranslationsClamp ==
    [][poseOp'.op \in PoseTranslationOps =>
         IF PoseSpaces[pose.cs].valid
         THEN \A k \in 1..PoseSpaces[pose.cs].rank : TranslatedAsStated(k)
         ELSE pose' = pose /\ poseOp'.stats = NoPoseStats]_vars

\* translateVoxelsRelative((-1, 1, 0)) under the orientation
\* (0.5, 0.5, 0.5, 0.5), which turns the translation into (0, -1, 1), with
\* the dimensions displayed in the order t, x: t was translated by 0 and
\* x by -1, which left x at floor(lower) = 0.
C32_Witness ==
    /\ poseOp.op = "translateVoxelsRelative"
    /\ poseOp.args.adjustment = <<Num(-1), Num(1), Num(0)>>
    /\ pose.cs = "XT"
    /\ pose.rd.dimensionIndices = <<1, 0, -1>>
    /\ pose.orientation = <<1, 1, 1, 1>>
    /\ pose.position.coords[1] = Num(0)
    /\ pose.position.coords[2] = Num(1)
    /\ poseOp.stats = [NoPoseStats EXCEPT !.changed = 1, !.position = 1]

\* translateDimensionRelative on an invalid pose returned at once.
TranslationOnInvalidPose ==
    /\ poseOp.op = "translateDimensionRelative"
    /\ pose.cs = "empty"
    /\ poseOp.stats = NoPoseStats

\* A coordinate outside the interval is not moved into it by a
\* translation away from the bound it violates: x stands below
\* floor(lower) = 0 after translateDimensionRelative(0, 0.5).
TranslatedOutsideInterval ==
    /\ poseOp.op = "translateDimensionRelative"
    /\ poseOp.args.dimensionIndex = 0
    /\ poseOp.args.adjustment = <<Frac(1, 2)>>
    /\ pose.cs = "XT"
    /\ pose.position.coords[1].n < 0

\* translateNonSpatialDimension translates through
\* translateDimensionRelative: a coordinate of a dimension with finite
\* bounds that is inside [floor(lower), ceil(upper - 1)] stays inside it,
\* and on an invalid pose nothing changes and nothing is dispatched.
NonSpatialTranslationClamps ==
    [][poseOp'.op = "translateNonSpatialDimension" =>
         IF PoseSpaces[pose.cs].valid
         THEN \A k \in 1..PoseSpaces[pose.cs].rank :
                  ( /\ isFinite(PoseSpaces[pose.cs].lowerBounds[k])
                    /\ isFinite(PoseSpaces[pose.cs].upperBounds[k])
                    /\ InClampInterval(PoseValueRead[k], k) )
                  => InClampInterval(
                         Pose_handleCoordinateSpaceChanged(pose').position.coords[k], k)
         ELSE pose' = pose /\ poseOp'.stats = NoPoseStats]_vars

\* translateNonSpatialDimension translated x, the one dimension that is
\* not displayed, and refreshed the render dimensions before it.
NonSpatialTranslated ==
    /\ poseOp.op = "translateNonSpatialDimension"
    /\ pose.cs = "XT"
    /\ pose.rd.dimensionIndices = <<1, -1, -1>>
    /\ poseOp.stats.position = 1 /\ poseOp.stats.renderDimensions = 2

-----------------------------------------------------------------------------
(* Pose.rotateAbsolute *)

\* The step is rotateAbsolute with a rotation by the angle 0.
RotatedByZero == poseOp'.op = "rotateAbsolute" /\ poseOp'.args.temp = quatIdentity

\* Every displayed dimension has the relative display scale factor that
\* stands at its display position.
FactorsAgreeWithDisplay ==
    \A i \in 1..PoseRead.rd.rank :
        PoseRead.rsf.factors[PoseRead.rd.dimensionIndices[i] + 1] = PoseRead.rsf.factors[i]

\* C33: rotateAbsolute by the angle 0 leaves every position coordinate
\* unchanged, for every selection of display dimensions and every choice
\* of render scale factors.
C33_RotateByZeroKeepsPosition ==
    [][RotatedByZero => pose'.position.coords = PoseValueRead]_vars

\* The same where the factor of every displayed dimension equals the one
\* at its display position; the orientation is kept as well.
RotateByZeroWithAgreeingFactors ==
    [][(RotatedByZero /\ FactorsAgreeWithDisplay) =>
          /\ pose'.position.coords = PoseValueRead
          /\ pose'.orientation = pose.orientation]_vars

\* rotateAbsolute by the angle 0 about the fixed point (1, 1) moved the
\* unbounded coordinate t of a Pose that displays t alone with the
\* factors (1, 2) from the centre (1, 0) to (1, -1).
RotateByZeroMoved ==
    /\ poseOp.op = "rotateAbsolute" /\ poseOp.args.temp = quatIdentity
    /\ pose.rd.dimensionIndices = <<1, -1, -1>>
    /\ pose.rsf.factors = <<1, 2>>
    /\ pose.position.coords = <<Num(1), Num(-1)>>

-----------------------------------------------------------------------------
(* The operations of a Pose the statements above rely on *)

\* Pose.reset() resets the position, the orientation and the render
\* dimensions, each dispatching once.
PoseResetDispatches ==
    [][poseOp'.op = "reset" =>
          /\ poseOp'.stats = [changed |-> 3, position |-> 1, orientation |-> 1,
                              renderDimensions |-> 1]
          /\ pose'.position = [cur |-> Undefined, coords |-> <<>>]
          /\ pose'.orientation = quatIdentity
          /\ pose'.rd.default_ /\ ~pose'.rd.defined]_vars

\* Pose.rotateRelative dispatches the orientation's changed signal once and
\* touches neither the position nor the render dimensions.
RotateRelativeKeepsPosition ==
    [][poseOp'.op = "rotateRelative" =>
          /\ poseOp'.stats = [NoPoseStats EXCEPT !.changed = 1, !.orientation = 1]
          /\ pose'.position = pose.position
          /\ pose'.rd = pose.rd]_vars

\* rotateRelative by a third of a turn from the identity, the position not
\* yet synchronized.
RotatedRelative ==
    /\ poseOp.op = "rotateRelative"
    /\ pose.orientation = <<1, 1, 1, 1>>
    /\ pose.position.cur = Undefined

\* toMat3 refreshed the render dimensions of a Pose after reset() and read
\* nothing of the position.
ToMat3AfterReset ==
    /\ poseOp.op = "toMat3"
    /\ poseOp.stats = [NoPoseStats EXCEPT !.changed = 1, !.renderDimensions = 1]
    /\ pose.rd.defined /\ pose.rd.fresh
    /\ pose.position.cur = Undefined

\* updateSpatialPosition3d left the coordinate x at -0.5, below floor(lower).
UpdatedPastBound ==
    /\ poseOp.op = "updateSpatialPosition3d"
    /\ pose.cs = "XT"
    /\ pose.position.coords[1] = Frac(-1, 2)

=============================================================================
